---------------------------- MODULE Spec2Model ----------------------------
(***************************************************************************)
(* A model of the streaming readers of lyso: FastqReader and CheckedReader *)
(* (four-line format), FastaReader (two-line format) and BamReader (binary *)
(* alignment format).  One reader is constructed over one in-memory source *)
(* and is then asked for items, one request after the other.               *)
(*                                                                         *)
(* Bytes of the text formats are one-character strings; bytes of the       *)
(* binary format are the integers 0..255.                                  *)
(***************************************************************************)
EXTENDS Integers, Sequences, FiniteSets, TLC

(***************************************************************************)
(* Bounds of the model.                                                    *)
(***************************************************************************)
\* A source is the concatenation of at most MaxChunks chunks ...
MaxChunks == 2
\* ... with at most MaxTrunc bytes cut off its end.
MaxTrunc == 2
\* Requests are counted (and their results recorded) up to MaxRequests.
MaxRequests == 14
\* FastqReader's MAX_BUFFER_SIZE (reader.rs:8 has 10_000_000), scaled down
\* so that both sides of `offset > MAX_BUFFER_SIZE` happen.
FQ_MAX_BUFFER_SIZE == 10
\* FastaReader's MAX_BUFFER_SIZE (reader.rs:9 has 1_000_000), scaled down:
\* it is the chunk size of a refill and the compaction threshold.
FA_MAX_BUFFER_SIZE == 12

(***************************************************************************)
(* Sequence helpers.                                                       *)
(***************************************************************************)
Min(a, b) == IF a < b THEN a ELSE b

\* s[from+1 ..], the slice `&s[from..]` of Rust.
SliceFrom(s, from) == SubSeq(s, from + 1, Len(s))

\* Index of the first element of s that is in set, 0 when there is none.
FirstIn(s, set) ==
  IF \E i \in 1..Len(s) : s[i] \in set
  THEN CHOOSE i \in 1..Len(s) : s[i] \in set /\ \A j \in 1..(i-1) : s[j] \notin set
  ELSE 0

\* Index of the first element of s that is not in set, 0 when there is none.
FirstNotIn(s, set) ==
  IF \E i \in 1..Len(s) : s[i] \notin set
  THEN CHOOSE i \in 1..Len(s) : s[i] \notin set /\ \A j \in 1..(i-1) : s[j] \in set
  ELSE 0

RECURSIVE Concat(_)
Concat(ss) == IF ss = <<>> THEN <<>> ELSE Head(ss) \o Concat(Tail(ss))

RECURSIVE Without(_, _)
\* s with the elements of set removed.
Without(s, set) ==
  IF s = <<>> THEN <<>>
  ELSE IF Head(s) \in set THEN Without(Tail(s), set)
       ELSE <<Head(s)>> \o Without(Tail(s), set)

(***************************************************************************)
(* nom's results and the combinators the parsers are built from.           *)
(***************************************************************************)
POk(rest, out) == [t |-> "Ok", rest |-> rest, out |-> out]
PIncomplete == [t |-> "Incomplete", rest |-> <<>>, out |-> <<>>]
PError == [t |-> "Error", rest |-> <<>>, out |-> <<>>]
PFailure == [t |-> "Failure", rest |-> <<>>, out |-> <<>>]

LineEndChars == {"\r", "\n"}
WhiteSpace == {" ", "\t", "\r", "\n"}

\* bytes::streaming::tag of a one-byte tag.
tag_streaming(c, input) ==
  IF input = <<>> THEN PIncomplete
  ELSE IF input[1] = c THEN POk(Tail(input), <<c>>)
  ELSE PError

\* bytes::streaming::is_not: the longest non-empty prefix free of `set`;
\* Incomplete when no byte of `set` is in sight.
is_not_streaming(set, input) ==
  LET p == FirstIn(input, set) IN
  IF p = 0 THEN PIncomplete
  ELSE IF p = 1 THEN PError
  ELSE POk(SliceFrom(input, p - 1), SubSeq(input, 1, p - 1))

\* bytes::complete::is_not: the end of the input ends the match.
is_not_complete(set, input) ==
  LET p == FirstIn(input, set) IN
  IF p = 1 \/ input = <<>> THEN PError
  ELSE IF p = 0 THEN POk(<<>>, input)
  ELSE POk(SliceFrom(input, p - 1), SubSeq(input, 1, p - 1))

\* bytes::streaming::is_a: the longest non-empty prefix made of `set`;
\* Incomplete when the input ends inside the match.
is_a_streaming(set, input) ==
  LET p == FirstNotIn(input, set) IN
  IF p = 0 THEN PIncomplete
  ELSE IF p = 1 THEN PError
  ELSE POk(SliceFrom(input, p - 1), SubSeq(input, 1, p - 1))

\* bytes::complete::is_a.
is_a_complete(set, input) ==
  LET p == FirstNotIn(input, set) IN
  IF p = 1 \/ input = <<>> THEN PError
  ELSE IF p = 0 THEN POk(<<>>, input)
  ELSE POk(SliceFrom(input, p - 1), SubSeq(input, 1, p - 1))

\* combinator::cut: an Error becomes a Failure.
cut(r) == IF r.t = "Error" THEN PFailure ELSE r

\* combinator::opt on the result r of a parser run on `input`: an Error
\* becomes Ok with nothing consumed.
opt(input, r) == IF r.t = "Error" THEN POk(input, <<>>) ELSE r

\* The `?` of a sequence of parsers: K goes on from an Ok result, any other
\* result is returned as it is.
Then(r, K(_)) == IF r.t # "Ok" THEN r ELSE K(r)

\* `let v = ...;` followed by K.
With(v, K(_)) == K(v)

(***************************************************************************)
(* lyso-fastq/src/parser.rs                                                *)
(***************************************************************************)
fq_start(input) == tag_streaming("@", input)

fq_not_line_ending(input) == is_not_streaming(LineEndChars, input)

fq_line_ending(input) == is_a_complete(LineEndChars, input)

fq_not_line_ending_or_space(input) == is_not_streaming(LineEndChars \cup {" "}, input)

\* terminated(pair(preceded(start, not_line_ending_or_space),
\*                 opt(preceded(tag(" "), not_line_ending))), line_ending)
fq_header(input) ==
  Then(fq_start(input), LAMBDA a :
  Then(fq_not_line_ending_or_space(a.rest), LAMBDA b :
  Then(opt(b.rest, Then(tag_streaming(" ", b.rest),
                        LAMBDA sp : fq_not_line_ending(sp.rest))), LAMBDA o :
  Then(fq_line_ending(o.rest), LAMBDA e :
    POk(e.rest, [id |-> b.out, desc |-> o.out])))))

\* map_res(terminated(not_line_ending, line_ending), from_utf8)
fq_line(input) ==
  Then(fq_not_line_ending(input), LAMBDA a :
  Then(fq_line_ending(a.rest), LAMBDA e : POk(e.rest, a.out)))

\* terminated(tag("+"), line)
fq_comment(input) ==
  Then(tag_streaming("+", input), LAMBDA a :
  Then(fq_line(a.rest), LAMBDA l : POk(l.rest, a.out)))

\* tuple((cut(header), line, comment, line))
fq_parse_record(input) ==
  Then(cut(fq_header(input)), LAMBDA h :
  Then(fq_line(h.rest), LAMBDA s :
  Then(fq_comment(s.rest), LAMBDA c :
  Then(fq_line(c.rest), LAMBDA q :
    POk(q.rest, [id |-> h.out.id, desc |-> h.out.desc, seq |-> s.out, qual |-> q.out])))))

(***************************************************************************)
(* lyso-fasta/src/parser.rs                                                *)
(***************************************************************************)
fa_start(input) == tag_streaming(">", input)

fa_not_line_ending(input) == is_not_streaming(LineEndChars, input)

fa_line_ending(input) == is_a_streaming(LineEndChars, input)

\* map_res(terminated(preceded(start, not_line_ending), line_ending), from_utf8)
fa_header(input) ==
  Then(fa_start(input), LAMBDA a :
  Then(fa_not_line_ending(a.rest), LAMBDA b :
  Then(fa_line_ending(b.rest), LAMBDA e : POk(e.rest, b.out))))

fa_seq(input) == is_not_complete({">"}, input)

\* A remove_newlines that drops the line feeds only.
remove_line_feeds(s) == Without(s, {"\n"})

\* remove_newlines: split(['\r', '\n']).collect()
remove_newlines(s) == Without(s, LineEndChars)

fa_sequence(input) ==
  Then(fa_seq(input), LAMBDA a : POk(a.rest, remove_newlines(a.out)))

\* pair(header, sequence)
fa_parse_record(input) ==
  Then(fa_header(input), LAMBDA h :
  Then(fa_sequence(h.rest), LAMBDA s : POk(s.rest, [id |-> h.out, seq |-> s.out])))

(***************************************************************************)
(* The sources.  A text source is a concatenation of chunks: well-formed   *)
(* and malformed records of both text formats, cut short by some bytes.    *)
(***************************************************************************)
\* "@r d\nAC\n+r\n!!\n": a four-line record whose separator repeats the id.
FqGood == <<"@","r"," ","d","\n", "A","C","\n", "+","r","\n", "!","!","\n">>
\* "@r d\nAC\n+\n!!\n": the same record with a bare `+` separator.
FqBare == <<"@","r"," ","d","\n", "A","C","\n", "+","\n", "!","!","\n">>
\* "@r1 desc\nACGT\n+\n!!!!\n": the four-line example of the specification.
FqSpecExample ==
  <<"@","r","1"," ","d","e","s","c","\n", "A","C","G","T","\n", "+","\n",
    "!","!","!","!","\n">>
\* "@s\nA\n+s\n!\n"
FqShort == <<"@","s","\n", "A","\n", "+","s","\n", "!","\n">>
\* "@m\nAC\n+m\n!\n": quality shorter than the sequence.
FqMismatch == <<"@","m","\n", "A","C","\n", "+","m","\n", "!","\n">>
\* "@n\nAC\n+\n!\n": the same with a bare `+`.
FqMismatchBare == <<"@","n","\n", "A","C","\n", "+","\n", "!","\n">>
\* "@t\nA\nC\n+\n!\n!\n": sequence and quality over two lines each.
FqMulti == <<"@","t","\n", "A","\n", "C","\n", "+","\n", "!","\n", "!","\n">>
\* "@u\nAC\nG\n+\n!!\n!\n": the last sequence line is shorter than the first.
FqRagged == <<"@","u","\n", "A","C","\n", "G","\n", "+","\n", "!","!","\n", "!","\n">>
\* "@\n+\n": a record all of whose fields are empty.
FqEmpty == <<"@","\n", "+","\n">>
\* "AC\n": a line that starts no record.
Junk == <<"A","C","\n">>
\* "\n"
Blank == <<"\n">>
\* ">a\nC\nC\n"
FaTwoLines == <<">","a","\n", "C","\n", "C","\n">>
\* ">b\nG\n"
FaOneLine == <<">","b","\n", "G","\n">>
\* ">c\n": a header without content.
FaNoSeq == <<">","c","\n">>
\* ">d\nT\n>e\nT\n": two records that fit one chunk read together.
FaPair == <<">","d","\n", "T","\n", ">","e","\n", "T","\n">>
\* ">l\nACGTACGTACGT\n": a record longer than FA_MAX_BUFFER_SIZE.
FaLong ==
  <<">","l","\n", "A","C","G","T","A","C","G","T","A","C","G","T","\n">>

TextChunks ==
  { FqGood, FqBare, FqSpecExample, FqShort, FqMismatch, FqMismatchBare, FqMulti, FqRagged,
    FqEmpty, Junk, Blank, FaTwoLines, FaOneLine, FaNoSeq, FaPair, FaLong }

ChunkSeqs(chunks) == UNION { [1..n -> chunks] : n \in 0..MaxChunks }

Truncate(s, k) == SubSeq(s, 1, Len(s) - Min(k, Len(s)))

TextSources == { Truncate(Concat(cs), k) : cs \in ChunkSeqs(TextChunks), k \in 0..MaxTrunc }

(***************************************************************************)
(* State.                                                                  *)
(***************************************************************************)
VARIABLES
  reader,    \* which reader was constructed over the source
  data,      \* the bytes of the source (`inner`)
  pos,       \* how many bytes of the source have been read
  state,     \* the reader's `state` field
  buffer,    \* the reader's `buffer` field
  offset,    \* the reader's `offset` field (consumed bytes of buffer)
  header,    \* BamReader's `header` field
  references,\* BamReader's `references` field
  trace,     \* the values the `state` field has had, in order
  last,      \* what the last request returned
  results,   \* what the requests returned, in order (the first MaxRequests)
  overflow_checks, \* the build traps integer overflow (debug) or wraps (release)
  call,      \* a direct call of a function of the library: its name and arguments
  ret,       \* what that call returned
  index      \* the index built from the entries of a FastqIndexer or FastaIndexer

vars == <<reader, data, pos, state, buffer, offset, header, references, trace,
          last, results, overflow_checks, call, ret, index>>

TextReaders == {"FastqReader", "CheckedReader", "FastaReader"}

\* What a request returns: Option<Result<Record, Error>>.
NoRecord == [id |-> <<>>, desc |-> <<>>, seq |-> <<>>, qual |-> <<>>]
ItemNone == [kind |-> "None", err |-> "", rec |-> NoRecord]
ItemOk(r) == [kind |-> "Ok", err |-> "", rec |-> r]
ItemErr(e) == [kind |-> "Err", err |-> e, rec |-> NoRecord]
\* Before the first request.
NoItem == [kind |-> "NoItem", err |-> "", rec |-> NoRecord]
\* No direct call is made; a call has not returned yet.
NoCall == [fn |-> "none"]
NoRet == [t |-> "NoRet"]

\* Position after BufRead::read_until(c) from position p: just after the
\* next c, or the end of the source.
ReadUntil(c, p) ==
  IF \E i \in (p+1)..Len(data) : data[i] = c
  THEN CHOOSE i \in (p+1)..Len(data) : data[i] = c /\ \A j \in (p+1)..(i-1) : data[j] # c
  ELSE Len(data)

\* The bytes of the source from position p up to position q.
Bytes(p, q) == SubSeq(data, p + 1, q)

Recorded(res) ==
  IF Len(results) < MaxRequests THEN Append(results, res) ELSE results

(***************************************************************************)
(* lyso-fastq/src/reader.rs: FastqReader                                   *)
(***************************************************************************)
\* Position after read_to_buffer: four times read_until(b'\n').
fq_read_to_buffer(p) == ReadUntil("\n", ReadUntil("\n", ReadUntil("\n", ReadUntil("\n", p))))

\* resize_buffer: drain(0..offset), offset = 0.
fq_resize_buffer(r) == [r EXCEPT !.buffer = SliceFrom(r.buffer, r.offset), !.offset = 0]

RECURSIVE fq_parse_loop(_, _, _)
\* The `while res.is_none()` loop of read_record, the source at position p.
fq_parse_loop(buf, off, p) ==
  With(fq_parse_record(SliceFrom(buf, off)), LAMBDA r :
    CASE r.t = "Ok" ->
           [state |-> "Reading", buffer |-> buf, offset |-> Len(buf) - Len(r.rest),
            pos |-> p, res |-> ItemOk(r.out)]
      [] r.t = "Incomplete" ->
           With(fq_read_to_buffer(p), LAMBDA q :
             IF q = p
             THEN [state |-> "Reading", buffer |-> buf, offset |-> off, pos |-> p,
                   res |-> ItemErr("EofError")]
             ELSE fq_parse_loop(buf \o Bytes(p, q), off, q))
      [] OTHER ->
           [state |-> "Reading", buffer |-> buf, offset |-> off, pos |-> p,
            res |-> ItemErr("ParseError")])

\* FastqReader::read_record on the reader (st, buf, off) and the source at p.
fq_read_record(st, buf, off, p) ==
  IF st # "Reading"
  THEN [state |-> st, buffer |-> buf, offset |-> off, pos |-> p, res |-> ItemNone]
  ELSE
    With(fq_read_to_buffer(p), LAMBDA q :
    With(buf \o Bytes(p, q), LAMBDA buf1 :
      IF q = p /\ off = Len(buf1)
      THEN [state |-> "Complete", buffer |-> buf1, offset |-> off, pos |-> q,
            res |-> ItemNone]
      ELSE
        With(fq_parse_loop(buf1, off, q), LAMBDA r :
          IF r.res.kind = "Ok" /\ r.offset > FQ_MAX_BUFFER_SIZE
          THEN fq_resize_buffer(r)
          ELSE r)))

(***************************************************************************)
(* lyso-fastq/src/lib.rs: CheckedReader                                    *)
(***************************************************************************)
RECURSIVE trim_end(_)
\* str::trim_end
trim_end(s) ==
  IF s # <<>> /\ s[Len(s)] \in WhiteSpace THEN trim_end(SubSeq(s, 1, Len(s) - 1)) ELSE s

RECURSIVE ck_seq_lines_prepends(_, _, _, _)
\* A sequence loop that puts each content line before the ones already read.
ck_seq_lines_prepends(p, line, seq, n) ==
  IF line # <<>> /\ line[1] # "+"
  THEN With(ReadUntil("\n", p), LAMBDA q :
         IF q = p
         THEN [t |-> "EofError", pos |-> p, seq |-> trim_end(line) \o seq, n |-> n]
         ELSE ck_seq_lines_prepends(q, Bytes(p, q), trim_end(line) \o seq, n + 1))
  ELSE [t |-> "Ok", pos |-> p, seq |-> seq, n |-> n]

RECURSIVE ck_seq_lines(_, _, _, _)
\* The sequence loop: `line` is the buffer, p the position after it.
ck_seq_lines(p, line, seq, n) ==
  IF line # <<>> /\ line[1] # "+"
  THEN With(ReadUntil("\n", p), LAMBDA q :
         IF q = p
         THEN [t |-> "EofError", pos |-> p, seq |-> seq \o trim_end(line), n |-> n]
         ELSE ck_seq_lines(q, Bytes(p, q), seq \o trim_end(line), n + 1))
  ELSE [t |-> "Ok", pos |-> p, seq |-> seq, n |-> n]

RECURSIVE ck_qual_lines(_, _, _)
\* The quality loop: n more lines are appended to the buffer `acc`.
ck_qual_lines(p, n, acc) ==
  IF n = 0 THEN [t |-> "Ok", pos |-> p, buf |-> acc]
  ELSE With(ReadUntil("\n", p), LAMBDA q :
         IF q = p THEN [t |-> "EofError", pos |-> p, buf |-> acc]
         ELSE ck_qual_lines(q, n - 1, acc \o Bytes(p, q)))

\* Record::empty
empty(rec) == rec.id = <<>> /\ rec.desc = <<>> /\ rec.seq = <<>> /\ rec.qual = <<>>

\* A read_record that does not consume the line it rejects for its missing
\* `@`.
ck_read_record_keeps_line(p) ==
  With(ReadUntil("\n", p), LAMBDA p1 :
  With(Bytes(p, p1), LAMBDA line1 :
    IF p1 = p THEN [t |-> "Ok", pos |-> p, rec |-> NoRecord]
    ELSE IF line1[1] # "@" THEN [t |-> "MissingId", pos |-> p, rec |-> NoRecord]
    ELSE
      With(trim_end(Tail(line1)), LAMBDA h :
      With(FirstIn(h, WhiteSpace), LAMBDA w :
      With(ReadUntil("\n", p1), LAMBDA p2 :
      With(ck_seq_lines(p2, Bytes(p1, p2), <<>>, 0), LAMBDA s :
        IF s.t # "Ok" THEN [t |-> s.t, pos |-> s.pos, rec |-> NoRecord]
        ELSE
          With(ck_qual_lines(s.pos, s.n, <<>>), LAMBDA q :
            IF q.t # "Ok" THEN [t |-> q.t, pos |-> q.pos, rec |-> NoRecord]
            ELSE
              With(Without(q.buf, WhiteSpace), LAMBDA qual :
                IF Len(qual) # Len(s.seq)
                THEN [t |-> "SeqQualMismatch", pos |-> q.pos, rec |-> NoRecord]
                ELSE [t |-> "Ok", pos |-> q.pos,
                      rec |-> [id |-> IF w = 0 THEN h ELSE SubSeq(h, 1, w - 1),
                               desc |-> IF w = 0 THEN <<>> ELSE SliceFrom(h, w),
                               seq |-> s.seq, qual |-> qual]]))))))))

\* CheckedReader::read_record with the source at p: the Result, the record
\* it filled and the position it leaves the source at.
ck_read_record(p) ==
  With(ReadUntil("\n", p), LAMBDA p1 :
  With(Bytes(p, p1), LAMBDA line1 :
    IF p1 = p THEN [t |-> "Ok", pos |-> p, rec |-> NoRecord]
    ELSE IF line1[1] # "@" THEN [t |-> "MissingId", pos |-> p1, rec |-> NoRecord]
    ELSE
      With(trim_end(Tail(line1)), LAMBDA h :
      With(FirstIn(h, WhiteSpace), LAMBDA w :
      With(ReadUntil("\n", p1), LAMBDA p2 :
      With(ck_seq_lines(p2, Bytes(p1, p2), <<>>, 0), LAMBDA s :
        IF s.t # "Ok" THEN [t |-> s.t, pos |-> s.pos, rec |-> NoRecord]
        ELSE
          With(ck_qual_lines(s.pos, s.n, <<>>), LAMBDA q :
            IF q.t # "Ok" THEN [t |-> q.t, pos |-> q.pos, rec |-> NoRecord]
            ELSE
              With(Without(q.buf, WhiteSpace), LAMBDA qual :
                IF Len(qual) # Len(s.seq)
                THEN [t |-> "SeqQualMismatch", pos |-> q.pos, rec |-> NoRecord]
                ELSE [t |-> "Ok", pos |-> q.pos,
                      rec |-> [id |-> IF w = 0 THEN h ELSE SubSeq(h, 1, w - 1),
                               desc |-> IF w = 0 THEN <<>> ELSE SliceFrom(h, w),
                               seq |-> s.seq, qual |-> qual]]))))))))

\* Iterator::next of CheckedReader.
ck_next(p) ==
  With(ck_read_record(p), LAMBDA r :
    [pos |-> r.pos,
     res |-> IF r.t = "Ok" THEN (IF empty(r.rec) THEN ItemNone ELSE ItemOk(r.rec))
             ELSE ItemErr(r.t)])

(***************************************************************************)
(* lyso-fastq/src/index.rs: FastqIndexer, FastqIndex and IndexedFastq      *)
(***************************************************************************)
\* FastqIndexEntry::new
NoEntry ==
  [name |-> <<>>, offset |-> 0, length |-> 0, q_offset |-> 0, linewidth |-> 0,
   linebases |-> 0]

RECURSIVE ix_seq_lines(_, _, _)
\* The sequence loop of make_index: `line` is the buffer, p the position
\* after it, length the ungapped length so far.
ix_seq_lines(p, line, length) ==
  IF line # <<>> /\ line[1] # "+"
  THEN With(ReadUntil("\n", p), LAMBDA q :
         IF q = p
         THEN [t |-> "EofError", pos |-> p, length |-> length + Len(trim_end(line))]
         ELSE ix_seq_lines(q, Bytes(p, q), length + Len(trim_end(line))))
  ELSE [t |-> "Ok", pos |-> p, length |-> length]

\* FastqIndexer::make_index on a new entry, with the buffer buf and the
\* source at p: the Result, the entry, the buffer and the position after.
make_index(buf, p) ==
  With(ReadUntil("\n", p), LAMBDA p1 :
    IF p1 = p THEN [t |-> "Ok", entry |-> NoEntry, buffer |-> buf, pos |-> p]
    ELSE
      With(Without(buf \o Bytes(p, p1), {"\n"}), LAMBDA b :
        IF b = <<>> THEN [t |-> "Ok", entry |-> NoEntry, buffer |-> b, pos |-> p1]
        ELSE IF b[1] # "@"
        THEN [t |-> "MissingId", entry |-> NoEntry, buffer |-> b, pos |-> p1]
        ELSE
          With(trim_end(Tail(b)), LAMBDA h :
          With(FirstIn(h, WhiteSpace), LAMBDA w :
          With(ReadUntil("\n", p1), LAMBDA p2 :
          With(ix_seq_lines(p2, Bytes(p1, p2), 0), LAMBDA s :
            IF s.t # "Ok"
            THEN [t |-> s.t, entry |-> NoEntry, buffer |-> <<>>, pos |-> s.pos]
            ELSE [t |-> "Ok",
                  entry |-> [name |-> IF w = 0 THEN h ELSE SubSeq(h, 1, w - 1),
                             offset |-> p1, length |-> s.length, q_offset |-> s.pos,
                             linewidth |-> p2 - p1,
                             linebases |-> Len(trim_end(Bytes(p1, p2)))],
                  buffer |-> <<>>,
                  \* skip_fwd(handle, length + 1)
                  pos |-> Min(s.pos + s.length + 1, Len(data))]))))))

\* Iterator::next of FastqIndexer.
ix_next(buf, p) ==
  With(make_index(buf, p), LAMBDA r :
    [buffer |-> r.buffer, pos |-> r.pos,
     res |-> IF r.t = "Ok"
             THEN (IF r.entry = NoEntry THEN ItemNone ELSE ItemOk(r.entry))
             ELSE ItemErr(r.t)])

\* An insert that keeps the entry a name already has.
insert_keeps_first(idx, e) ==
  [n \in (DOMAIN idx) \cup {e.name} |-> IF n \in DOMAIN idx THEN idx[n] ELSE e]

\* FastqIndex::from_entries, one entry: inner.insert(e.name.clone(), e).
insert(idx, e) ==
  [n \in (DOMAIN idx) \cup {e.name} |-> IF n = e.name THEN e ELSE idx[n]]

\* An IndexedFastq::get that reads the entry of an unknown name as the
\* empty entry instead of returning.
get_without_lookup(idx, id, rec, h) ==
  With(IF id \in DOMAIN idx THEN idx[id] ELSE NoEntry, LAMBDA e :
    IF e.linebases = 0 THEN [t |-> "Panic", rec |-> NoRecord, handle |-> e.offset]
    ELSE [t |-> "Ok", rec |-> [NoRecord EXCEPT !.id = e.name], handle |-> h])

\* An IndexedFastq::get that clears the record before it looks the name up.
get_clears_first(idx, id, rec, h) ==
  IF id \notin DOMAIN idx THEN [t |-> "NotFound", rec |-> NoRecord, handle |-> h]
  ELSE [t |-> "Ok", rec |-> [NoRecord EXCEPT !.id = idx[id].name], handle |-> h]

\* IndexedFastq::get(id, rec) over the same source, the caller's record
\* being rec and the handle standing at h: the Result, the record and the
\* position of the handle after it.  A division by zero panics; a
\* read_exact that fails leaves the handle at the end of the source.
get(idx, id, rec, h) ==
  IF id \notin DOMAIN idx THEN [t |-> "NotFound", rec |-> rec, handle |-> h]
  ELSE
    With(idx[id], LAMBDA e :
      IF e.linebases = 0 THEN [t |-> "Panic", rec |-> NoRecord, handle |-> e.offset]
      ELSE
        With((e.length \div e.linebases) * e.linewidth, LAMBDA n :
          IF e.offset + n > Len(data)
          THEN [t |-> "IoError", rec |-> [NoRecord EXCEPT !.id = e.name],
                handle |-> Len(data)]
          ELSE
            With(Without(Bytes(e.offset, e.offset + n), {"\n"}), LAMBDA seq :
              IF e.q_offset + Len(seq) > Len(data)
              THEN [t |-> "IoError", rec |-> [NoRecord EXCEPT !.id = e.name, !.seq = seq],
                    handle |-> Len(data)]
              ELSE [t |-> "Ok",
                    rec |-> [id |-> e.name, desc |-> <<>>, seq |-> seq,
                             qual |-> Without(Bytes(e.q_offset, e.q_offset + Len(seq)),
                                              {"\n"})],
                    handle |-> e.q_offset + Len(seq)])))

(***************************************************************************)
(* lyso-fasta/src/indexer.rs: FastaIndexer, FastaIndex and IndexedFasta    *)
(* (src/idx/mod.rs holds a second copy of the same items)                  *)
(***************************************************************************)
\* FastaIndexEntry::new
NoFaEntry == [name |-> <<>>, offset |-> 0, length |-> 0, linewidth |-> 0, linebases |-> 0]

\* FastaIndexer::make_index on a new entry, with the buffer buf and the
\* source at p: the Result, the entry, the buffer and the position after.
\* Its content loop is the loop of FastqIndexer::make_index.
fai_make_index(buf, p) ==
  With(ReadUntil("\n", p), LAMBDA p1 :
    IF p1 = p THEN [t |-> "Ok", entry |-> NoFaEntry, buffer |-> buf, pos |-> p]
    ELSE
      With(Without(buf \o Bytes(p, p1), {"\n"}), LAMBDA b :
        IF b = <<>> THEN [t |-> "Ok", entry |-> NoFaEntry, buffer |-> b, pos |-> p1]
        ELSE IF b[1] # "@"
        THEN [t |-> "MissingId", entry |-> NoFaEntry, buffer |-> b, pos |-> p1]
        ELSE
          With(trim_end(Tail(b)), LAMBDA h :
          With(FirstIn(h, WhiteSpace), LAMBDA w :
          With(ReadUntil("\n", p1), LAMBDA p2 :
          With(ix_seq_lines(p2, Bytes(p1, p2), 0), LAMBDA s :
            IF s.t # "Ok"
            THEN [t |-> s.t, entry |-> NoFaEntry, buffer |-> <<>>, pos |-> s.pos]
            ELSE [t |-> "Ok",
                  entry |-> [name |-> IF w = 0 THEN h ELSE SubSeq(h, 1, w - 1),
                             offset |-> p1, length |-> s.length,
                             linewidth |-> p2 - p1,
                             linebases |-> Len(trim_end(Bytes(p1, p2)))],
                  buffer |-> <<>>,
                  \* skip_fwd(handle, length + 1)
                  pos |-> Min(s.pos + s.length + 1, Len(data))]))))))

\* Iterator::next of FastaIndexer.
fai_next(buf, p) ==
  With(fai_make_index(buf, p), LAMBDA r :
    [buffer |-> r.buffer, pos |-> r.pos,
     res |-> IF r.t = "Ok"
             THEN (IF r.entry = NoFaEntry THEN ItemNone ELSE ItemOk(r.entry))
             ELSE ItemErr(r.t)])

\* IndexedFasta::get(id, rec) over the same source, the caller's record
\* being rec and the handle standing at h: the Result, the record and the
\* position of the handle after it.  A division by zero panics.
fai_get(idx, id, rec, h) ==
  IF id \notin DOMAIN idx THEN [t |-> "NotFound", rec |-> rec, handle |-> h]
  ELSE
    With(idx[id], LAMBDA e :
      IF e.linebases = 0 THEN [t |-> "Panic", rec |-> NoRecord, handle |-> e.offset]
      ELSE
        With((e.length \div e.linebases) * e.linewidth, LAMBDA n :
          IF e.offset + n > Len(data)
          THEN [t |-> "IoError", rec |-> [NoRecord EXCEPT !.id = e.name],
                handle |-> Len(data)]
          ELSE [t |-> "Ok",
                rec |-> [id |-> e.name, desc |-> <<>>, qual |-> <<>>,
                         seq |-> Without(Bytes(e.offset, e.offset + n), {"\n"})],
                handle |-> e.offset + n]))

(***************************************************************************)
(* lyso-fasta/src/reader.rs: FastaReader                                   *)
(***************************************************************************)
\* Position after read_to_buffer(n): take(n).read_to_end.
fa_read_to_buffer(n, p) == Min(p + n, Len(data))

\* Position after read_to_next_header: read_until(b'>').
fa_read_to_next_header(p) == ReadUntil(">", p)

\* A maybe_resize_buffer that drains the buffer and keeps the offset.
fa_maybe_resize_buffer_keeps_offset(r) ==
  IF Len(r.buffer) > FA_MAX_BUFFER_SIZE
  THEN [r EXCEPT !.buffer = SliceFrom(r.buffer, r.offset)]
  ELSE r

\* maybe_resize_buffer
fa_maybe_resize_buffer(r) ==
  IF Len(r.buffer) > FA_MAX_BUFFER_SIZE
  THEN [r EXCEPT !.buffer = SliceFrom(r.buffer, r.offset), !.offset = 0]
  ELSE r

RECURSIVE fa_parse_loop(_, _, _)
\* The `while res.is_none()` loop of read_record.
fa_parse_loop(buf, off, p) ==
  With(fa_parse_record(SliceFrom(buf, off)), LAMBDA r :
    CASE r.t = "Ok" ->
           [state |-> "Reading", buffer |-> buf, offset |-> Len(buf) - Len(r.rest),
            pos |-> p,
            res |-> ItemOk([id |-> r.out.id, desc |-> <<>>, seq |-> r.out.seq,
                            qual |-> <<>>])]
      [] r.t = "Incomplete" ->
           With(fa_read_to_next_header(p), LAMBDA q :
             IF q = p
             THEN [state |-> "Reading", buffer |-> buf, offset |-> off, pos |-> p,
                   res |-> ItemErr("EofError")]
             ELSE fa_parse_loop(buf \o Bytes(p, q), off, q))
      [] OTHER ->
           [state |-> "Reading", buffer |-> buf, offset |-> off, pos |-> p,
            res |-> ItemErr("ParserError")])

\* FastaReader::read_record
fa_read_record(st, buf, off, p) ==
  IF st = "Complete"
  THEN [state |-> st, buffer |-> buf, offset |-> off, pos |-> p, res |-> ItemNone]
  ELSE
    With(fa_read_to_buffer(FA_MAX_BUFFER_SIZE, p), LAMBDA q :
    With(buf \o Bytes(p, q), LAMBDA buf1 :
      IF q = p /\ buf1 = <<>>
      THEN [state |-> "Complete", buffer |-> buf1, offset |-> off, pos |-> q,
            res |-> ItemNone]
      ELSE
        With(fa_parse_loop(buf1, off, q), LAMBDA r :
          IF r.res.kind = "Ok" THEN fa_maybe_resize_buffer(r) ELSE r)))

(***************************************************************************)
(* lyso-bam/src/parser.rs.  Bytes are integers 0..255.  The sources keep   *)
(* every unsigned 32-bit field below 2^31.                                 *)
(***************************************************************************)
BAM_MAGIC_STR == <<66, 65, 77, 1>>

\* Incomplete(Needed::Size(n))
PNeeded(n) == [t |-> "Incomplete", rest |-> <<>>, out |-> n]
\* The parser panicked.
PPanic == [t |-> "Panic", rest |-> <<>>, out |-> <<>>]

\* TLC's integers are 32-bit signed.  An unsigned 32-bit value of 2^31 or
\* more stands as HugeU32, and u32::MAX as U32_MAX: the order of the values
\* is kept, and such a value is a length that is compared with the (short)
\* input.
HugeU32 == (2^30 - 1) * 2
U32_MAX == HugeU32 + 1

RECURSIVE LeSum(_)
LeSum(b) == IF b = <<>> THEN 0 ELSE b[1] + 256 * LeSum(Tail(b))

\* The little-endian unsigned value of a byte string of at most 4 bytes.
LeUnsigned(b) ==
  IF b = <<255, 255, 255, 255>> THEN U32_MAX
  ELSE IF Len(b) = 4 /\ b[4] >= 128 THEN HugeU32 ELSE LeSum(b)

\* The little-endian two's-complement value of a non-empty byte string.
LeSigned(b) ==
  LET n == Len(b)
      top == IF b[n] >= 128 THEN b[n] - 256 ELSE b[n]
  IN LeSum(SubSeq(b, 1, n - 1)) + top * (256 ^ (n - 1))

\* number::complete::le_u8 / le_u16 / le_u32: n bytes, Error when short.
le_unsigned_complete(n, input) ==
  IF Len(input) < n THEN PError
  ELSE POk(SliceFrom(input, n), LeUnsigned(SubSeq(input, 1, n)))

\* number::complete::le_i8 / le_i16 / le_i32.
le_signed_complete(n, input) ==
  IF Len(input) < n THEN PError
  ELSE POk(SliceFrom(input, n), LeSigned(SubSeq(input, 1, n)))

\* number::streaming::le_u32
le_u32_streaming(input) ==
  IF Len(input) < 4 THEN PNeeded(4 - Len(input))
  ELSE POk(SliceFrom(input, 4), LeUnsigned(SubSeq(input, 1, 4)))

\* bytes::streaming::take(n)
take_streaming(n, input) ==
  IF Len(input) < n THEN PNeeded(n - Len(input))
  ELSE POk(SliceFrom(input, n), SubSeq(input, 1, n))

\* multi::length_data(streaming::le_u32)
length_data(input) ==
  Then(le_u32_streaming(input), LAMBDA l : take_streaming(l.out, l.rest))

\* multi::count(number::complete::le_*, k) of elements of `width` bytes.
count_complete(width, k, signed, input) ==
  IF Len(input) \div width < k THEN PError
  ELSE POk(SliceFrom(input, width * k),
           [i \in 1..k |->
              LET b == SubSeq(input, (i - 1) * width + 1, i * width) IN
              IF signed THEN LeSigned(b) ELSE LeUnsigned(b)])

\* A bam_magic that takes any four bytes for the marker.
bam_magic_any(input) ==
  IF Len(input) < 4 THEN PNeeded(4 - Len(input))
  ELSE POk(SliceFrom(input, 4), BAM_MAGIC_STR)

\* bam_magic: tag(BAM_MAGIC_STR), streaming.
bam_magic(input) ==
  LET n == Min(Len(input), 4) IN
  IF SubSeq(input, 1, n) # SubSeq(BAM_MAGIC_STR, 1, n) THEN PError
  ELSE IF n < 4 THEN PNeeded(4 - n)
  ELSE POk(SliceFrom(input, 4), BAM_MAGIC_STR)

\* header: tuple((preceded(bam_magic, length_data(le_u32)), le_u32))
bam_header(input) ==
  Then(bam_magic(input), LAMBDA m :
  Then(length_data(m.rest), LAMBDA x :
  Then(le_u32_streaming(x.rest), LAMBDA n :
    POk(n.rest, [text |-> x.out, n_ref |-> n.out]))))

\* parser::read_header
parser_read_header(input) == bam_header(input)

\* A validate_ref_name without the test of the first character.
validate_ref_name_any_first(name) ==
  \A i \in 1..Len(name) :
    /\ name[i] \in 33..126
    /\ name[i] \notin {92, 123, 125, 91, 93, 60, 62, 40, 41, 44}

\* validate_ref_name on the bytes of a name: TRUE for Some(name).
validate_ref_name(name) ==
  /\ name # <<>> => name[1] \notin {61, 42}
  /\ \A i \in 1..Len(name) :
       /\ name[i] \in 33..126
       /\ name[i] \notin {92, 123, 125, 91, 93, 60, 62, 40, 41, 44}

\* null_terminated_bytes: complete take_until(NUL), then the NUL is dropped.
null_terminated_bytes(input) ==
  LET z == FirstIn(input, {0}) IN
  IF z = 0 THEN PError
  ELSE POk(SliceFrom(input, z), SubSeq(input, 1, z - 1))

\* reference_name: map_parser(length_data(le_u32), null_terminated_bytes)
reference_name(input) ==
  Then(length_data(input), LAMBDA d :
  Then(null_terminated_bytes(d.out), LAMBDA n : POk(d.rest, n.out)))

\* reference: tuple((reference_name, le_u32))
reference(input) ==
  Then(reference_name(input), LAMBDA n :
  Then(le_u32_streaming(n.rest), LAMBDA l :
    POk(l.rest, [name |-> n.out, l_ref |-> l.out])))

\* parser::read_reference: from_utf8(..).unwrap() and
\* validate_ref_name(..).expect(..) panic on a name that is not valid.
read_reference(input) ==
  Then(reference(input), LAMBDA r :
    IF validate_ref_name(r.out.name) THEN r ELSE PPanic)

\* v & 4 and a | 4 on unsigned values.
And4(v) == IF (v \div 4) % 2 = 1 THEN 4 ELSE 0
Or(a, b4) == IF b4 = 4 /\ (a \div 4) % 2 = 0 THEN a + 4 ELSE a
\* v >> 4 of the 32-bit little-endian value of four bytes (below 2^28).
ShiftRight4(b) == b[1] \div 16 + 16 * b[2] + 4096 * b[3] + 1048576 * b[4]

CigarKinds == <<"M", "I", "D", "N", "S", "H", "P", "Eq", "X">>

\* to_cigar: the operation of kind input[1] and length input[2]; "Panic"
\* for a kind outside 0..8.
to_cigar(input) ==
  IF input[1] \in 0..8
  THEN [op |-> CigarKinds[input[1] + 1], len |-> input[2]]
  ELSE [op |-> "Panic", len |-> input[2]]

\* unpack_cigar_op: [v & 4, v >> 4 | (v & 4)]
unpack_cigar_op(input) ==
  Then(le_unsigned_complete(4, input), LAMBDA r :
    POk(r.rest, <<And4(input[1]), Or(ShiftRight4(input), And4(input[1]))>>))

RECURSIVE read_cigar_loop(_, _, _)
read_cigar_loop(input, n, ops) ==
  IF n = 0 THEN POk(input, ops)
  ELSE Then(unpack_cigar_op(input), LAMBDA r :
       With(to_cigar(r.out), LAMBDA c :
         IF c.op = "Panic" THEN PPanic
         ELSE read_cigar_loop(r.rest, n - 1, Append(ops, c))))

\* read_cigar
read_cigar(input, n_op) == read_cigar_loop(input, n_op, <<>>)

BamSeqSymbols ==
  <<"Eq", "A", "C", "M", "G", "R", "S", "V", "T", "W", "Y", "H", "K", "D", "B", "N">>

\* to_sequence
to_sequence(nibble) == IF nibble \in 0..14 THEN BamSeqSymbols[nibble + 1] ELSE "N"

\* unpack_sequence: [v >> 4, v & 0x0F]
unpack_sequence(input) ==
  Then(le_unsigned_complete(1, input), LAMBDA r :
    POk(r.rest, <<r.out \div 16, r.out % 16>>))

RECURSIVE read_sequence_loop(_, _, _)
read_sequence_loop(input, n, seq) ==
  IF n = 0 THEN POk(input, seq)
  ELSE Then(unpack_sequence(input), LAMBDA r :
         read_sequence_loop(r.rest, n - 1,
           seq \o <<to_sequence(r.out[1]), to_sequence(r.out[2])>>))

\* read_sequence: (l_seq + 1) / 2 bytes; the last symbol is popped when
\* l_seq is odd.  `*l_seq + 1` is a u32 addition: for u32::MAX it panics in
\* a build with overflow checks and wraps to 0 in one without, where no byte
\* is read and the pop finds the vector empty.
read_sequence(input, l_seq) ==
  IF l_seq = U32_MAX
  THEN (IF overflow_checks THEN PPanic ELSE POk(input, <<>>))
  ELSE
    Then(read_sequence_loop(input, (l_seq + 1) \div 2, <<>>), LAMBDA r :
      IF l_seq % 2 # 0 THEN POk(r.rest, SubSeq(r.out, 1, Len(r.out) - 1)) ELSE r)

\* read_quality: count(le_u8, n)
read_quality(input, n) == count_complete(1, n, FALSE, input)

(***************************************************************************)
(* Auxiliary fields.  A value is [ty, v]; ty is the variant of             *)
(* BamAuxValue.                                                            *)
(***************************************************************************)
AuxValue(ty, v) == [ty |-> ty, v |-> v]

HexDigits == (48..57) \cup (65..70) \cup (97..102)

HexDigitValue(c) == IF c \in 48..57 THEN c - 48 ELSE IF c \in 65..70 THEN c - 55 ELSE c - 87

RECURSIVE HexValue(_, _)
HexValue(digits, acc) ==
  IF digits = <<>> THEN acc
  ELSE IF acc >= 2^27 THEN HugeU32
  ELSE HexValue(Tail(digits), acc * 16 + HexDigitValue(Head(digits)))

\* number::complete::hex_u32: one to eight hexadecimal digits.
hex_u32(input) ==
  LET p == FirstNotIn(input, HexDigits)
      run == IF p = 0 THEN Len(input) ELSE p - 1
      n == Min(run, 8)
  IN IF n = 0 THEN PError
     ELSE POk(SliceFrom(input, n), HexValue(SubSeq(input, 1, n), 0))

RECURSIVE hex_vec_loop(_, _)
hex_vec_loop(input, acc) ==
  With(hex_u32(input), LAMBDA r :
    IF r.t # "Ok" THEN (IF acc = <<>> THEN PError ELSE POk(input, acc))
    ELSE hex_vec_loop(r.rest, Append(acc, r.out)))

\* hex_vec: many1(hex_u32)
hex_vec(input) == hex_vec_loop(input, <<>>)

\* The element width and signedness of the subtypes of a B array:
\* c C s S i I f.
AuxVecWidth(sub) ==
  CASE sub \in {99, 67} -> 1
    [] sub \in {115, 83} -> 2
    [] sub \in {105, 73, 102} -> 4
    [] OTHER -> 0

AuxTypeName(code) ==
  CASE code = 65 -> "A" [] code = 99 -> "c" [] code = 67 -> "C"
    [] code = 115 -> "s" [] code = 83 -> "S" [] code = 105 -> "i"
    [] code = 73 -> "I" [] code = 102 -> "f" [] code = 90 -> "Z"
    [] code = 72 -> "H" [] code = 66 -> "B" [] OTHER -> "?"

\* aux_vec: subtype, count, then that many elements; an unknown subtype
\* panics.
aux_vec(input) ==
  IF Len(input) < 5 THEN PError
  ELSE IF AuxVecWidth(input[1]) = 0 THEN PPanic
  ELSE
    Then(count_complete(AuxVecWidth(input[1]), LeUnsigned(SubSeq(input, 2, 5)),
                        input[1] \in {99, 115, 105}, SliceFrom(input, 5)),
         LAMBDA r : POk(r.rest, AuxValue("B" \o AuxTypeName(input[1]), r.out)))

\* bam_tag: fill(le_u8, 2 bytes)
bam_tag(input) ==
  IF Len(input) < 2 THEN PError ELSE POk(SliceFrom(input, 2), SubSeq(input, 1, 2))

\* The value of a field of type dtype.
aux_value(dtype, i) ==
  CASE dtype \in {65, 67} ->
         Then(le_unsigned_complete(1, i),
              LAMBDA r : POk(r.rest, AuxValue(AuxTypeName(dtype), r.out)))
    [] dtype = 99 ->
         Then(le_signed_complete(1, i), LAMBDA r : POk(r.rest, AuxValue("c", r.out)))
    [] dtype = 115 ->
         Then(le_signed_complete(2, i), LAMBDA r : POk(r.rest, AuxValue("s", r.out)))
    [] dtype = 83 ->
         Then(le_unsigned_complete(2, i), LAMBDA r : POk(r.rest, AuxValue("S", r.out)))
    [] dtype = 105 ->
         Then(le_signed_complete(4, i), LAMBDA r : POk(r.rest, AuxValue("i", r.out)))
    [] dtype \in {73, 102} ->
         Then(le_unsigned_complete(4, i),
              LAMBDA r : POk(r.rest, AuxValue(AuxTypeName(dtype), r.out)))
    [] dtype = 90 ->
         Then(null_terminated_bytes(i), LAMBDA r : POk(r.rest, AuxValue("Z", r.out)))
    [] dtype = 72 ->
         Then(hex_vec(i), LAMBDA r : POk(r.rest, AuxValue("H", r.out)))
    [] dtype = 66 -> aux_vec(i)
    [] OTHER -> PPanic

\* read_aux_field: tag, type code, value.
read_aux_field(input) ==
  Then(bam_tag(input), LAMBDA g :
  Then(le_unsigned_complete(1, g.rest), LAMBDA d :
  Then(aux_value(d.out, d.rest), LAMBDA v :
    POk(v.rest, [tag |-> g.out, value |-> v.out]))))

RECURSIVE many1_aux(_, _)
\* many1(read_aux_field): at least one field, until a field fails to parse.
many1_aux(input, acc) ==
  With(read_aux_field(input), LAMBDA r :
    CASE r.t = "Ok" -> many1_aux(r.rest, Append(acc, r.out))
      [] r.t = "Error" -> IF acc = <<>> THEN PError ELSE POk(input, acc)
      [] OTHER -> r)

\* aux_to_hash: tag -> field, a later field replacing an earlier one.
aux_to_hash(fields) ==
  [g \in { fields[i].tag : i \in 1..Len(fields) } |->
     LET k == CHOOSE i \in 1..Len(fields) :
                /\ fields[i].tag = g
                /\ \A j \in (i+1)..Len(fields) : fields[j].tag # g
     IN fields[k].value]

CG == <<67, 71>>

RECURSIVE cigar_chunks(_)
\* v.chunks_exact(2).map(to_cigar)
cigar_chunks(v) ==
  IF Len(v) < 2 THEN <<>>
  ELSE <<to_cigar(<<v[1], v[2]>>)>> \o cigar_chunks(SubSeq(v, 3, Len(v)))

\* u16::MAX
U16_MAX == 65535

\* A maybe_correct_cigar that leaves the CG field in the mapping.
maybe_correct_cigar_keeps_CG(n_cigar_op, seq_len, cigar, aux_hash, ref) ==
  IF /\ n_cigar_op = 2
     /\ CG \in DOMAIN aux_hash
     /\ cigar = <<[op |-> "S", len |-> seq_len], [op |-> "N", len |-> ref.l_ref]>>
     /\ aux_hash[CG].ty = "BI"
  THEN With(aux_hash[CG].v, LAMBDA v :
         IF Len(v) > U16_MAX
         THEN [n_cigar_op |-> n_cigar_op, cigar |-> cigar, aux |-> aux_hash,
               fired |-> TRUE, panic |-> TRUE]
         ELSE With(cigar_chunks(v), LAMBDA ops :
                [n_cigar_op |-> Len(v), cigar |-> ops, aux |-> aux_hash,
                 fired |-> TRUE,
                 panic |-> \E i \in 1..Len(ops) : ops[i].op = "Panic"]))
  ELSE [n_cigar_op |-> n_cigar_op, cigar |-> cigar, aux |-> aux_hash,
        fired |-> FALSE, panic |-> FALSE]

\* maybe_correct_cigar on (n_cigar_op, cigar, aux_hash): the three after the
\* call; `fired` when the BI arm of the match ran, `panic` when
\* u16::try_from(v.len()).unwrap() or, after it, to_cigar panicked.
maybe_correct_cigar(n_cigar_op, seq_len, cigar, aux_hash, ref) ==
  IF /\ n_cigar_op = 2
     /\ CG \in DOMAIN aux_hash
     /\ cigar = <<[op |-> "S", len |-> seq_len], [op |-> "N", len |-> ref.l_ref]>>
     /\ aux_hash[CG].ty = "BI"
  THEN With(aux_hash[CG].v, LAMBDA v :
         IF Len(v) > U16_MAX
         THEN [n_cigar_op |-> n_cigar_op, cigar |-> cigar, aux |-> aux_hash,
               fired |-> TRUE, panic |-> TRUE]
         ELSE With(cigar_chunks(v), LAMBDA ops :
                [n_cigar_op |-> Len(v),
                 cigar |-> ops,
                 aux |-> [g \in (DOMAIN aux_hash) \ {CG} |-> aux_hash[g]],
                 fired |-> TRUE,
                 panic |-> \E i \in 1..Len(ops) : ops[i].op = "Panic"]))
  ELSE [n_cigar_op |-> n_cigar_op, cigar |-> cigar, aux |-> aux_hash,
        fired |-> FALSE, panic |-> FALSE]

\* read_alignment: one alignment record from a slice that starts with the
\* block's length prefix.
read_alignment(input, refs) ==
  IF Len(input) < 36 THEN PError
  ELSE
    LET block_size == LeUnsigned(SubSeq(input, 1, 4))
        ref_id == LeSigned(SubSeq(input, 5, 8))
        position == LeSigned(SubSeq(input, 9, 12))
        l_read_name == input[13]
        mapq == input[14]
        bin == LeUnsigned(SubSeq(input, 15, 16))
        n_cigar_op == LeUnsigned(SubSeq(input, 17, 18))
        flag == LeUnsigned(SubSeq(input, 19, 20))
        l_seq == LeUnsigned(SubSeq(input, 21, 24))
        next_ref_id == LeSigned(SubSeq(input, 25, 28))
        next_pos == LeSigned(SubSeq(input, 29, 32))
        tlen == LeSigned(SubSeq(input, 33, 36))
    IN
    Then(take_streaming(l_read_name, SliceFrom(input, 36)), LAMBDA name :
    Then(read_cigar(name.rest, n_cigar_op), LAMBDA cig :
    Then(read_sequence(cig.rest, l_seq), LAMBDA sq :
    Then(read_quality(sq.rest, l_seq), LAMBDA ql :
    With(IF ql.rest = <<>> THEN POk(<<>>, <<>>) ELSE many1_aux(ql.rest, <<>>),
         LAMBDA aux :
      \* many1(..).unwrap(), aux_hash.as_mut().unwrap() and references[ref_id]
      IF aux.t # "Ok" THEN PPanic
      ELSE IF aux.out = <<>> THEN PPanic
      ELSE IF ref_id < 0 \/ ref_id >= Len(refs) THEN PPanic
      ELSE
        With(maybe_correct_cigar(n_cigar_op, Len(sq.out), cig.out,
                                 aux_to_hash(aux.out), refs[ref_id + 1]),
             LAMBDA c :
          IF c.panic THEN PPanic
          ELSE POk(aux.rest,
                   [block_size |-> block_size, ref_id |-> ref_id, pos |-> position,
                    l_read_name |-> l_read_name, mapq |-> mapq, bin |-> bin,
                    n_cigar_op |-> c.n_cigar_op, flag |-> flag, l_seq |-> l_seq,
                    next_ref_id |-> next_ref_id, next_pos |-> next_pos,
                    tlen |-> tlen, read_name |-> name.out, cigar |-> c.cigar,
                    seq |-> sq.out,
                    qual |-> IF \A k \in 1..Len(ql.out) : ql.out[k] = 255
                             THEN [some |-> FALSE, v |-> <<>>]
                             ELSE [some |-> TRUE, v |-> ql.out],
                    aux |-> c.aux])))))))

(***************************************************************************)
(* lyso-bam/src/reader.rs: BamReader                                       *)
(***************************************************************************)
NoHeader == [some |-> FALSE, text |-> <<>>, n_ref |-> 0]
SomeHeader(h) == [some |-> TRUE, text |-> h.text, n_ref |-> h.n_ref]

\* A request that never returns: a panic, or a loop that never ends.
ItemPanic == [kind |-> "Panic", err |-> "", rec |-> NoRecord]
ItemHang == [kind |-> "Hang", err |-> "", rec |-> NoRecord]

\* Position after read_to_buffer(amt): io::copy of inner.take(amt).
bam_read_to_buffer(amt, p) == Min(p + amt, Len(data))

RECURSIVE read_header_loop(_, _, _)
\* The `while self.header.is_none()` loop of read_header.
read_header_loop(buf, off, p) ==
  With(parser_read_header(SliceFrom(buf, off)), LAMBDA r :
    CASE r.t = "Ok" ->
           [t |-> "Ok", header |-> SomeHeader(r.out), buffer |-> buf, pos |-> p]
      [] r.t = "Incomplete" ->
           With(bam_read_to_buffer(r.out, p), LAMBDA q :
             IF q = p THEN [t |-> "Hang", header |-> NoHeader, buffer |-> buf, pos |-> p]
             ELSE read_header_loop(buf \o Bytes(p, q), off, q))
      [] OTHER -> [t |-> "Panic", header |-> NoHeader, buffer |-> buf, pos |-> p])

\* A read_header that enters Reference whatever the declared reference count.
read_header_always_reference(r) ==
  With(bam_read_to_buffer(8, r.pos), LAMBDA q :
  With(read_header_loop(r.buffer \o Bytes(r.pos, q), r.offset, q), LAMBDA h :
    IF h.t # "Ok"
    THEN [r EXCEPT !.buffer = h.buffer, !.pos = h.pos, !.t = h.t]
    ELSE With("Reference", LAMBDA st :
           [r EXCEPT !.header = h.header, !.state = st,
                     !.visited = Append(r.visited, st),
                     !.buffer = <<>>, !.pos = h.pos])))

\* BamReader::read_header: the reader after it, and how it ended.
read_header(r) ==
  With(bam_read_to_buffer(8, r.pos), LAMBDA q :
  With(read_header_loop(r.buffer \o Bytes(r.pos, q), r.offset, q), LAMBDA h :
    IF h.t # "Ok"
    THEN [r EXCEPT !.buffer = h.buffer, !.pos = h.pos, !.t = h.t]
    ELSE With(IF h.header.n_ref > 0 THEN "Reference" ELSE "Alignment", LAMBDA st :
           [r EXCEPT !.header = h.header, !.state = st,
                     !.visited = Append(r.visited, st),
                     !.buffer = <<>>, !.pos = h.pos])))

RECURSIVE read_references_loop(_, _, _, _, _)
\* The `while self.references.len() < n_ref` loop of read_references.
read_references_loop(n_ref, buf, off, refs, p) ==
  IF Len(refs) >= n_ref
  THEN [t |-> "Ok", buffer |-> buf, offset |-> off, references |-> refs, pos |-> p]
  ELSE
    With(read_reference(SliceFrom(buf, off)), LAMBDA r :
      CASE r.t = "Ok" ->
             read_references_loop(n_ref, buf, Len(buf) - Len(r.rest),
                                  Append(refs, r.out), p)
        [] r.t = "Incomplete" ->
             With(bam_read_to_buffer(r.out, p), LAMBDA q :
               IF q = p
               THEN [t |-> "Hang", buffer |-> buf, offset |-> off,
                     references |-> refs, pos |-> p]
               ELSE read_references_loop(n_ref, buf \o Bytes(p, q), off, refs, q))
        [] OTHER ->
             [t |-> "Panic", buffer |-> buf, offset |-> off, references |-> refs,
              pos |-> p])

\* A read_references that enters Alignment without decoding the catalog.
read_references_decodes_none(r) ==
  [r EXCEPT !.references = <<>>, !.buffer = <<>>, !.offset = 0,
            !.state = "Alignment", !.visited = Append(r.visited, "Alignment")]

\* BamReader::read_references
read_references(r) ==
  With(read_references_loop(r.header.n_ref, r.buffer, r.offset, <<>>, r.pos),
       LAMBDA l :
    IF l.t # "Ok"
    THEN [r EXCEPT !.buffer = l.buffer, !.offset = l.offset,
                   !.references = l.references, !.pos = l.pos, !.t = l.t]
    ELSE [r EXCEPT !.references = l.references, !.buffer = <<>>, !.offset = 0,
                   !.state = "Alignment", !.visited = Append(r.visited, "Alignment"),
                   !.pos = l.pos])

\* parser::block_size
block_size(input) == le_unsigned_complete(4, input)

\* BamReader::read_block: Ok(v), Err(EofError) or Err(ParseError), with the
\* buffer and the position of the source after it.
read_block(buf, off, p) ==
  With(bam_read_to_buffer(4, p), LAMBDA q :
  With(buf \o Bytes(p, q), LAMBDA buf1 :
    IF q - p = 0 THEN [t |-> "Ok", v |-> 0, buffer |-> buf1, pos |-> q]
    ELSE IF q - p # 4 THEN [t |-> "EofError", v |-> 0, buffer |-> buf1, pos |-> q]
    ELSE
      With(block_size(SliceFrom(buf1, off)), LAMBDA b :
        IF b.t # "Ok" THEN [t |-> "ParseError", v |-> 0, buffer |-> buf1, pos |-> q]
        ELSE
          With(bam_read_to_buffer(b.out, q), LAMBDA q2 :
          With(buf1 \o Bytes(q, q2), LAMBDA buf2 :
            IF q2 - q = b.out THEN [t |-> "Ok", v |-> q2 - q, buffer |-> buf2, pos |-> q2]
            ELSE [t |-> "EofError", v |-> 0, buffer |-> buf2, pos |-> q2])))))

\* The Alignment arm of read_record.
read_record_alignment(r) ==
  With(read_block(r.buffer, r.offset, r.pos), LAMBDA b :
  With([r EXCEPT !.buffer = b.buffer, !.pos = b.pos], LAMBDA r1 :
    IF b.t = "Ok" /\ b.v = 0
    THEN [r1 EXCEPT !.state = "Complete", !.visited = Append(r.visited, "Complete"),
                    !.res = ItemNone]
    ELSE IF b.t # "Ok" THEN [r1 EXCEPT !.res = ItemErr(b.t)]
    ELSE
      With(read_alignment(SliceFrom(r1.buffer, r1.offset), r1.references), LAMBDA a :
        CASE a.t = "Ok" ->
               [r1 EXCEPT !.buffer = <<>>,
                          !.res = [kind |-> "Ok", err |-> "", rec |-> a.out]]
          [] a.t = "Panic" -> [r1 EXCEPT !.t = "Panic"]
          [] OTHER -> [r1 EXCEPT !.res = ItemErr("ParseError")])))

\* A read_record whose Complete state reads the source again.
bam_read_record_reopens(r) ==
  With(IF r.state = "Header" THEN read_header(r) ELSE r, LAMBDA r1 :
  With(IF r1.t = "Ok" /\ r1.state = "Reference" THEN read_references(r1) ELSE r1,
       LAMBDA r2 :
    IF r2.t # "Ok" THEN r2 ELSE read_record_alignment(r2)))

\* BamReader::read_record: the Header and Reference arms decode and then
\* call read_record again.
bam_read_record(r) ==
  IF r.state = "Complete" THEN [r EXCEPT !.res = ItemNone]
  ELSE
    With(IF r.state = "Header" THEN read_header(r) ELSE r, LAMBDA r1 :
    With(IF r1.t = "Ok" /\ r1.state = "Reference" THEN read_references(r1) ELSE r1,
         LAMBDA r2 :
      IF r2.t # "Ok" THEN r2 ELSE read_record_alignment(r2)))

(***************************************************************************)
(* Binary sources: a header with its reference catalog, then blocks, cut   *)
(* short by some bytes.                                                    *)
(***************************************************************************)
U16(n) == <<n % 256, n \div 256>>
U32(n) == <<n % 256, (n \div 256) % 256, (n \div 65536) % 256, n \div 16777216>>
MinusOne == <<255, 255, 255, 255>>

\* name "c", l_ref 5
RefEntry == U32(2) \o <<99, 0>> \o U32(5)
\* No header text, no reference.
HeadNoRef == BAM_MAGIC_STR \o U32(0) \o U32(0)
\* Header text "HD", one reference.
HeadOneRef == BAM_MAGIC_STR \o U32(2) \o <<72, 68>> \o U32(1) \o RefEntry
\* The last byte of the magic marker is wrong.
HeadBadMagic == <<66, 65, 77, 2>> \o U32(0) \o U32(0)

BamHeads == { HeadNoRef, HeadOneRef, HeadBadMagic }

\* The 32 bytes of fixed fields after the length prefix: pos 3,
\* l_read_name 2, mapq 30, bin 4680, n_cigar_op 1, flag 0, l_seq 2,
\* next_ref_id -1, next_pos -1, tlen 0.
FixedFields(ref_id) ==
  ref_id \o U32(3) \o <<2, 30>> \o U16(4680) \o U16(1) \o U16(0) \o U32(2)
  \o MinusOne \o MinusOne \o U32(0)
\* read name "r", CIGAR 2M, sequence AC, qualities 30 30.
VarFields == <<114, 0>> \o U32(32) \o <<18>> \o <<30, 30>>
\* NM:C:1
AuxNM == <<78, 77, 67, 1>>

GoodBody == FixedFields(U32(0)) \o VarFields \o AuxNM
\* A well-formed record on reference 0.
GoodBlock == U32(Len(GoodBody)) \o GoodBody
\* The same without auxiliary fields.
NoAuxBlock == U32(Len(GoodBody) - 4) \o FixedFields(U32(0)) \o VarFields
\* The same with reference id -1.
UnmappedBlock == U32(Len(GoodBody)) \o FixedFields(MinusOne) \o VarFields \o AuxNM
\* A block too short to hold the fixed fields.
ShortBlock == U32(4) \o <<1, 2, 3, 4>>
\* A block of declared length 0.
ZeroBlock == U32(0)
\* A well-formed record whose length prefix says 21, and one more byte.
MisdeclaredBlock == U32(21) \o GoodBody \o <<0>>
\* Three bytes of a length prefix.
PartialPrefix == <<45, 0, 0>>

BamBlocks ==
  { GoodBlock, NoAuxBlock, UnmappedBlock, ShortBlock, ZeroBlock, MisdeclaredBlock,
    PartialPrefix }

BamSources ==
  { Truncate(h \o Concat(bs), k) :
      h \in BamHeads, bs \in ChunkSeqs(BamBlocks), k \in 0..MaxTrunc }

(***************************************************************************)
(* The state machine.                                                      *)
(***************************************************************************)
Readers == TextReaders \cup {"BamReader", "FastqIndexer", "FastaIndexer"}

InitState(r) ==
  CASE r = "CheckedReader" -> "NoState"
    [] r = "BamReader" -> "Header"
    [] r \in {"FastqIndexer", "FastaIndexer"} -> "Scanning"
    [] OTHER -> "Reading"

Init ==
  /\ reader \in Readers
  /\ data \in (IF reader = "BamReader" THEN BamSources ELSE TextSources)
  /\ pos = 0
  /\ state = InitState(reader)
  /\ buffer = <<>>
  /\ offset = 0
  /\ header = NoHeader
  /\ references = <<>>
  /\ trace = <<state>>
  /\ last = NoItem
  /\ results = <<>>
  /\ overflow_checks \in BOOLEAN
  /\ call = NoCall
  /\ ret = NoRet
  /\ index = << >>

\* A request that panicked or hangs never returns to the caller.
Returned == last.kind \notin {"Panic", "Hang"}

\* A request to a FastqReader (Iterator::next).
FastqNext ==
  /\ reader = "FastqReader"
  /\ \E r \in {fq_read_record(state, buffer, offset, pos)} :
       /\ state' = r.state
       /\ buffer' = r.buffer
       /\ offset' = r.offset
       /\ pos' = r.pos
       /\ trace' = IF r.state # state THEN Append(trace, r.state) ELSE trace
       /\ last' = r.res
       /\ results' = Recorded(r.res)
  /\ UNCHANGED <<reader, data, header, references, overflow_checks, call, ret, index>>

\* A request to a CheckedReader (Iterator::next).
CheckedNext ==
  /\ reader = "CheckedReader"
  /\ \E r \in {ck_next(pos)} :
       /\ pos' = r.pos
       /\ last' = r.res
       /\ results' = Recorded(r.res)
  /\ UNCHANGED <<reader, data, state, buffer, offset, header, references, trace,
                 overflow_checks, call, ret, index>>

\* A request to a FastaReader (Iterator::next).
FastaNext ==
  /\ reader = "FastaReader"
  /\ \E r \in {fa_read_record(state, buffer, offset, pos)} :
       /\ state' = r.state
       /\ buffer' = r.buffer
       /\ offset' = r.offset
       /\ pos' = r.pos
       /\ trace' = IF r.state # state THEN Append(trace, r.state) ELSE trace
       /\ last' = r.res
       /\ results' = Recorded(r.res)
  /\ UNCHANGED <<reader, data, header, references, overflow_checks, call, ret, index>>

\* A request to a BamReader (Iterator::next).
BamNext ==
  /\ reader = "BamReader"
  /\ Returned
  /\ \E r \in {bam_read_record(
                 [t |-> "Ok", state |-> state, buffer |-> buffer, offset |-> offset,
                  pos |-> pos, header |-> header, references |-> references,
                  visited |-> <<>>, res |-> NoItem])} :
       /\ state' = r.state
       /\ buffer' = r.buffer
       /\ offset' = r.offset
       /\ pos' = r.pos
       /\ header' = r.header
       /\ references' = r.references
       /\ trace' = trace \o r.visited
       /\ last' = (CASE r.t = "Panic" -> ItemPanic
                     [] r.t = "Hang" -> ItemHang
                     [] OTHER -> r.res)
       /\ results' = Recorded(CASE r.t = "Panic" -> ItemPanic
                                [] r.t = "Hang" -> ItemHang
                                [] OTHER -> r.res)
  /\ UNCHANGED <<reader, data, overflow_checks, call, ret, index>>

\* One round of the loop of `Into<FastqIndex> for FastqIndexer`: the next
\* item of the indexer, unwrapped and inserted; None ends the loop.
IndexerNext ==
  /\ reader = "FastqIndexer"
  /\ state = "Scanning"
  /\ Returned
  /\ \E r \in {ix_next(buffer, pos)} :
       /\ buffer' = r.buffer
       /\ pos' = r.pos
       /\ index' = IF r.res.kind = "Ok" THEN insert(index, r.res.rec) ELSE index
       /\ state' = IF r.res.kind = "None" THEN "Built" ELSE state
       /\ trace' = IF r.res.kind = "None" THEN Append(trace, "Built") ELSE trace
       /\ last' = IF r.res.kind = "Err" THEN ItemPanic ELSE r.res
       /\ results' = Recorded(IF r.res.kind = "Err" THEN ItemPanic ELSE r.res)
  /\ UNCHANGED <<reader, data, offset, header, references, overflow_checks, call, ret>>

\* IndexedFastq::get over the same source and the index built: a name of
\* the index, or one that is not in it; the caller passes a new record or
\* the record of the call before, and the handle stands where that call
\* left it.
IndexedGet ==
  /\ reader = "FastqIndexer"
  /\ state = "Built"
  /\ ret.t # "Panic"
  /\ \E id \in (DOMAIN index) \cup {<<"z">>} :
     \E rec \in {NoRecord} \cup (IF call.fn = "get" THEN {ret.rec} ELSE {}) :
     \E h \in {IF call.fn = "get" THEN ret.handle ELSE 0} :
       /\ call' = [fn |-> "get", id |-> id, rec |-> rec, handle |-> h]
       /\ ret' = get(index, id, rec, h)
  /\ UNCHANGED <<reader, data, pos, state, buffer, offset, header, references, trace,
                 last, results, overflow_checks, index>>

\* One round of the loop of `Into<FastaIndex> for FastaIndexer`.
FastaIndexerNext ==
  /\ reader = "FastaIndexer"
  /\ state = "Scanning"
  /\ Returned
  /\ \E r \in {fai_next(buffer, pos)} :
       /\ buffer' = r.buffer
       /\ pos' = r.pos
       /\ index' = IF r.res.kind = "Ok" THEN insert(index, r.res.rec) ELSE index
       /\ state' = IF r.res.kind = "None" THEN "Built" ELSE state
       /\ trace' = IF r.res.kind = "None" THEN Append(trace, "Built") ELSE trace
       /\ last' = IF r.res.kind = "Err" THEN ItemPanic ELSE r.res
       /\ results' = Recorded(IF r.res.kind = "Err" THEN ItemPanic ELSE r.res)
  /\ UNCHANGED <<reader, data, offset, header, references, overflow_checks, call, ret>>

\* IndexedFasta::get over the same source and the index built: a name of
\* the index, or one that is not in it; the record and the handle as for
\* IndexedFastq::get.
IndexedFastaGet ==
  /\ reader = "FastaIndexer"
  /\ state = "Built"
  /\ ret.t # "Panic"
  /\ \E id \in (DOMAIN index) \cup {<<"z">>} :
     \E rec \in {NoRecord} \cup (IF call.fn = "get" THEN {ret.rec} ELSE {}) :
     \E h \in {IF call.fn = "get" THEN ret.handle ELSE 0} :
       /\ call' = [fn |-> "get", id |-> id, rec |-> rec, handle |-> h]
       /\ ret' = fai_get(index, id, rec, h)
  /\ UNCHANGED <<reader, data, pos, state, buffer, offset, header, references, trace,
                 last, results, overflow_checks, index>>

Next ==
  \/ FastqNext \/ CheckedNext \/ FastaNext \/ BamNext
  \/ IndexerNext \/ IndexedGet \/ FastaIndexerNext \/ IndexedFastaGet

Spec == Init /\ [][Next]_vars

(***************************************************************************)
(* Direct calls of the decoding functions of lyso-bam/src/parser.rs: one   *)
(* call, with arguments drawn from the sets below, and its result.         *)
(***************************************************************************)
\* A sequence is declared with up to MaxSeqLen symbols ...
MaxSeqLen == 4
\* ... and a slice handed to read_sequence holds up to MaxSeqBytes bytes.
MaxSeqBytes == 3

\* read_cigar(input, n_op): one whole packed value (every low byte, with
\* small and large upper bytes), or up to two values of which the last bytes
\* may be missing.
CigarCalls ==
  { [fn |-> "read_cigar", input |-> <<b1, b2, 0, b4>>, n_op |-> 1] :
      b1 \in 0..255, b2 \in {0, 1}, b4 \in {0, 255} }
  \cup
  { [fn |-> "read_cigar", input |-> Truncate(w1 \o w2, k), n_op |-> n] :
      w1 \in { U32(20), U32(41) }, w2 \in { U32(83), U32(16) },
      k \in 0..MaxTrunc, n \in 0..2 }

\* read_sequence(input, l_seq)
SequenceCalls ==
  { [fn |-> "read_sequence", input |-> i, l_seq |-> l] :
      i \in UNION { [1..n -> {0, 18, 143, 240, 255}] : n \in 0..MaxSeqBytes },
      l \in (0..MaxSeqLen) \cup {U32_MAX} }

\* Auxiliary mappings as aux_to_hash builds them (at least one field): NM
\* alone, a CG field of the unsigned-32 array variant with and without NM,
\* and CG fields of other variants.
AuxHashes ==
  { aux_to_hash(fs) : fs \in
      { <<[tag |-> <<78, 77>>, value |-> AuxValue("C", 1)]>> }
      \cup { <<[tag |-> CG, value |-> AuxValue("BI", v)]>> :
               v \in { <<>>, <<0, 5>>, <<0, 5, 1, 3>>, <<4, 2, 8>>, <<9, 1>>,
                       [i \in 1..(2 * (U16_MAX + 1)) |-> i % 2] } }
      \cup { <<[tag |-> CG, value |-> AuxValue("BI", <<0, 5, 1, 3>>)],
               [tag |-> <<78, 77>>, value |-> AuxValue("C", 1)]>>,
             <<[tag |-> CG, value |-> AuxValue("BS", <<0, 5>>)]>>,
             <<[tag |-> CG, value |-> AuxValue("Z", <<53, 77>>)]>> } }

\* maybe_correct_cigar(n_cigar_op, seq_len, cigar, aux_hash, reference), as
\* read_alignment calls it: n_cigar_op is the number of ops of cigar.
CorrectionCalls ==
  { [fn |-> "maybe_correct_cigar", n_cigar_op |-> Len(c), seq_len |-> l, cigar |-> c,
     aux_hash |-> h, ref |-> [name |-> <<99>>, l_ref |-> 5]] :
      l \in {2, 4}, h \in AuxHashes,
      c \in { <<>>, <<[op |-> "M", len |-> 2]>>,
              <<[op |-> "S", len |-> 2], [op |-> "N", len |-> 5]>>,
              <<[op |-> "S", len |-> 4], [op |-> "N", len |-> 5]>>,
              <<[op |-> "S", len |-> 2], [op |-> "N", len |-> 6]>>,
              <<[op |-> "N", len |-> 5], [op |-> "S", len |-> 2]>>,
              <<[op |-> "S", len |-> 2], [op |-> "M", len |-> 5]>>,
              <<[op |-> "S", len |-> 2], [op |-> "N", len |-> 5],
                [op |-> "M", len |-> 1]>> } }

\* A record of the two-line format has up to MaxLines content lines.
MaxLines == 3

\* The text of a two-line record: `>`, the id, a line terminator nl, then
\* the content lines ls joined by nl, with nl after the last one when final.
fa_encode(id, ls, nl, final) ==
  <<">">> \o id \o nl
    \o Concat([i \in 1..Len(ls) |-> ls[i] \o (IF i < Len(ls) \/ final THEN nl ELSE <<>>)])

\* parse_record(input) of lyso-fasta over the text of a valid record: an id
\* (one with a space, one with a `>`), a sequence cut into 1..MaxLines
\* lines, both line terminators, with and without the last terminator.
FastaCalls ==
  { [fn |-> "parse_record", input |-> fa_encode(id, ls, nl, final), id |-> id,
     seq |-> Concat(ls)] :
      id \in { <<"A">>, <<"S", "R", " ", "1">>, <<"a", ">", "b">> },
      ls \in UNION { [1..n -> { <<"A">>, <<"A", "C">>, <<"G", " ", "T">> }] :
                       n \in 1..MaxLines },
      nl \in { <<"\n">>, <<"\r", "\n">> }, final \in BOOLEAN }

\* read_reference(input) over one whole reference-catalog entry: l_name,
\* the name with its NUL, l_ref 5.  The names: the empty one, every single
\* byte but NUL, and pairs of a letter, `=`, `*`, `\`, `,`, a space, DEL and
\* a byte that is not ASCII.
ReferenceCalls ==
  { [fn |-> "read_reference", input |-> U32(Len(n) + 1) \o n \o <<0>> \o U32(5)] :
      n \in { <<>> } \cup { <<b>> : b \in 1..255 }
            \cup { <<a, b>> : a, b \in {65, 61, 42, 92, 44, 32, 127, 200} } }

ParserInit ==
  /\ call \in CigarCalls \cup SequenceCalls \cup CorrectionCalls \cup FastaCalls
              \cup ReferenceCalls
  /\ ret = NoRet
  /\ overflow_checks \in BOOLEAN
  /\ reader = "none"
  /\ data = <<>>
  /\ pos = 0
  /\ state = "NoState"
  /\ buffer = <<>>
  /\ offset = 0
  /\ header = NoHeader
  /\ references = <<>>
  /\ trace = <<state>>
  /\ last = NoItem
  /\ results = <<>>
  /\ index = << >>

\* A call of read_cigar.
ReadCigar ==
  /\ call.fn = "read_cigar"
  /\ ret = NoRet
  /\ ret' = read_cigar(call.input, call.n_op)
  /\ UNCHANGED <<reader, data, pos, state, buffer, offset, header, references, trace,
                 last, results, overflow_checks, call, index>>

\* A call of read_sequence.
ReadSequence ==
  /\ call.fn = "read_sequence"
  /\ ret = NoRet
  /\ ret' = read_sequence(call.input, call.l_seq)
  /\ UNCHANGED <<reader, data, pos, state, buffer, offset, header, references, trace,
                 last, results, overflow_checks, call, index>>

\* A call of maybe_correct_cigar.
MaybeCorrectCigar ==
  /\ call.fn = "maybe_correct_cigar"
  /\ ret = NoRet
  /\ ret' = maybe_correct_cigar(call.n_cigar_op, call.seq_len, call.cigar,
                                call.aux_hash, call.ref)
  /\ UNCHANGED <<reader, data, pos, state, buffer, offset, header, references, trace,
                 last, results, overflow_checks, call, index>>

\* A call of parse_record of lyso-fasta.
ParseRecord ==
  /\ call.fn = "parse_record"
  /\ ret = NoRet
  /\ ret' = fa_parse_record(call.input)
  /\ UNCHANGED <<reader, data, pos, state, buffer, offset, header, references, trace,
                 last, results, overflow_checks, call, index>>

\* A call of read_reference.
ReadReference ==
  /\ call.fn = "read_reference"
  /\ ret = NoRet
  /\ ret' = read_reference(call.input)
  /\ UNCHANGED <<reader, data, pos, state, buffer, offset, header, references, trace,
                 last, results, overflow_checks, call, index>>

ParserNext ==
  \/ ReadCigar \/ ReadSequence \/ MaybeCorrectCigar
  \/ ParseRecord \/ ReadReference

ParserSpec == ParserInit /\ [][ParserNext]_vars

(***************************************************************************)
(* The persisted index table: Display for the index entries and            *)
(* read_index (lyso-fastq/src/index.rs, lyso-fasta/src/indexer.rs), with   *)
(* direct calls of from_entries and read_index.                            *)
(***************************************************************************)
DigitChars == <<"0", "1", "2", "3", "4", "5", "6", "7", "8", "9">>

DigitValue(c) == CHOOSE d \in 0..9 : DigitChars[d + 1] = c

RECURSIVE to_string(_)
\* Display for u64: the decimal digits of n.
to_string(n) ==
  IF n < 10 THEN <<DigitChars[n + 1]>>
  ELSE to_string(n \div 10) \o <<DigitChars[(n % 10) + 1]>>

\* The digits of u64::MAX.
U64_MAX_DIGITS ==
  <<"1", "8", "4", "4", "6", "7", "4", "4", "0", "7", "3", "7", "0", "9", "5", "5",
    "1", "6", "1", "5">>

RECURSIVE digits_value(_)
digits_value(d) ==
  IF d = <<>> THEN 0
  ELSE 10 * digits_value(SubSeq(d, 1, Len(d) - 1)) + DigitValue(d[Len(d)])

\* str::parse::<u64>: an optional `+`, then one or more decimal digits
\* whose value fits 64 bits.
parse_u64(s) ==
  With(IF s # <<>> /\ s[1] = "+" THEN Tail(s) ELSE s, LAMBDA d :
    IF d = <<>> \/ \E i \in 1..Len(d) : \A k \in 1..10 : DigitChars[k] # d[i]
    THEN [ok |-> FALSE, v |-> 0]
    ELSE
      With(FirstNotIn(d, {"0"}), LAMBDA z :
      With(IF z = 0 THEN <<>> ELSE SliceFrom(d, z - 1), LAMBDA sig :
        IF \/ Len(sig) > Len(U64_MAX_DIGITS)
           \/ /\ Len(sig) = Len(U64_MAX_DIGITS)
              /\ \E i \in 1..Len(sig) :
                   /\ DigitValue(sig[i]) > DigitValue(U64_MAX_DIGITS[i])
                   /\ \A j \in 1..(i - 1) : sig[j] = U64_MAX_DIGITS[j]
        THEN [ok |-> FALSE, v |-> 0]
        ELSE [ok |-> TRUE, v |-> digits_value(sig)])))

RECURSIVE split(_, _)
\* str::split(sep): the fields of s, at least one.
split(s, sep) ==
  With(FirstIn(s, {sep}), LAMBDA i :
    IF i = 0 THEN <<s>> ELSE <<SubSeq(s, 1, i - 1)>> \o split(SliceFrom(s, i), sep))

RECURSIVE lines(_)
\* BufRead::lines: the lines of text without their "\n" or "\r\n".
lines(text) ==
  IF text = <<>> THEN <<>>
  ELSE
    With(FirstIn(text, {"\n"}), LAMBDA i :
      IF i = 0 THEN <<text>>
      ELSE <<IF i > 1 /\ text[i - 1] = "\r" THEN SubSeq(text, 1, i - 2)
             ELSE SubSeq(text, 1, i - 1)>> \o lines(SliceFrom(text, i)))

\* A Display that writes the offset before the length.
display_offset_first(e) ==
  e.name \o <<"\t">> \o to_string(e.offset) \o <<"\t">> \o to_string(e.length)
    \o <<"\t">> \o to_string(e.linebases) \o <<"\t">> \o to_string(e.linewidth)
    \o (IF "q_offset" \in DOMAIN e THEN <<"\t">> \o to_string(e.q_offset) ELSE <<>>)

\* Display for FastqIndexEntry (six fields) and for FastaIndexEntry (five).
display(e) ==
  e.name \o <<"\t">> \o to_string(e.length) \o <<"\t">> \o to_string(e.offset)
    \o <<"\t">> \o to_string(e.linebases) \o <<"\t">> \o to_string(e.linewidth)
    \o (IF "q_offset" \in DOMAIN e THEN <<"\t">> \o to_string(e.q_offset) ELSE <<>>)

\* The table of the entries of idx, each written as `format!("{}\n", e)`,
\* in the order `order` of its keys.
persist(idx, order) == Concat([i \in 1..Len(order) |-> display(idx[order[i]]) \o <<"\n">>])

RECURSIVE read_rows(_, _, _)
\* The loop of read_index over the lines ls, for rows of n fields: the
\* Result and the index after it.  A failed parse::<u64>().unwrap() panics.
read_rows(idx, ls, n) ==
  IF ls = <<>> THEN [t |-> "Ok", index |-> idx]
  ELSE
    With(split(Head(ls), "\t"), LAMBDA f :
      IF Len(f) # n THEN [t |-> "InvalidData", index |-> idx]
      ELSE IF \E i \in 2..n : ~parse_u64(f[i]).ok THEN [t |-> "Panic", index |-> idx]
      ELSE
        With([name |-> f[1], offset |-> parse_u64(f[3]).v, length |-> parse_u64(f[2]).v,
              linewidth |-> parse_u64(f[5]).v, linebases |-> parse_u64(f[4]).v],
             LAMBDA e :
          read_rows(insert(idx, IF n = 6 THEN e @@ [q_offset |-> parse_u64(f[6]).v] ELSE e),
                    Tail(ls), n)))

\* FastqIndex::read_index (n = 6) and FastaIndex::read_index (n = 5).
read_index(idx, text, n) == read_rows(idx, lines(text), n)

RECURSIVE from_entries(_, _)
\* FastqIndex::from_entries / FastaIndex::from_entries
from_entries(idx, es) ==
  IF es = <<>> THEN idx ELSE from_entries(insert(idx, Head(es)), Tail(es))

\* A stream handed to from_entries holds up to MaxEntries entries ...
MaxEntries == 3
\* ... and a table handed to read_index up to MaxRows rows.
MaxRows == 2

\* Entries as make_index, read_index and FastqIndexEntry::new produce them:
\* two of one name, one of another name, one whose name holds a space (a
\* loaded one) and the empty entry.
FqEntries ==
  { [name |-> <<"a">>, offset |-> 3, length |-> 10, q_offset |-> 120, linewidth |-> 6,
     linebases |-> 5],
    [name |-> <<"a">>, offset |-> 40, length |-> 2, q_offset |-> 45, linewidth |-> 3,
     linebases |-> 2],
    [name |-> <<"b">>, offset |-> 7, length |-> 7, q_offset |-> 17, linewidth |-> 8,
     linebases |-> 7],
    [name |-> <<"a", " ", "b">>, offset |-> 1, length |-> 0, q_offset |-> 9,
     linewidth |-> 1, linebases |-> 0],
    NoEntry }

\* The same entries without the quality offset.
FaEntries ==
  { [f \in (DOMAIN e) \ {"q_offset"} |-> e[f]] : e \in FqEntries }

\* Rows of a table: the lines of the entries of both formats (a row of one
\* format has the wrong number of fields for the other), a line that ends
\* with "\r\n", a numeric field that is not a number, is negative, is
\* empty, carries a sign or does not fit 64 bits, and an empty line.
TableRows ==
  { display(e) \o <<"\n">> : e \in FqEntries \cup FaEntries }
  \cup { display(e) \o <<"\r", "\n">> : e \in { NoEntry, NoFaEntry } }
  \cup { <<"c", "\t">> \o v \o <<"\t", "2", "\t", "3", "\t", "4">> \o t \o <<"\n">> :
           v \in { <<"x">>, <<"-", "1">>, <<>>, <<"+", "5">>, <<"0", "7">>,
                   U64_MAX_DIGITS \o <<"0">> },
           t \in { <<>>, <<"\t", "5">> } }
  \cup { <<"\n">> }

\* A table of up to MaxRows rows, of which the last one may lack its "\n".
Tables ==
  { Truncate(Concat(rs), k) :
      rs \in UNION { [1..n -> TableRows] : n \in 0..MaxRows }, k \in 0..1 }

IndexCalls ==
  { [fn |-> "from_entries", entries |-> es, n |-> 6] :
      es \in UNION { [1..n -> FqEntries] : n \in 0..MaxEntries } }
  \cup { [fn |-> "from_entries", entries |-> es, n |-> 5] :
      es \in UNION { [1..n -> FaEntries] : n \in 0..MaxEntries } }
  \cup { [fn |-> "read_index", table |-> t, n |-> n] : t \in Tables, n \in {5, 6} }

IndexInit ==
  /\ call \in IndexCalls
  /\ ret = NoRet
  /\ overflow_checks \in BOOLEAN
  /\ reader = IF call.n = 6 THEN "FastqIndex" ELSE "FastaIndex"
  /\ data = <<>>
  /\ pos = 0
  /\ state = "New"
  /\ buffer = <<>>
  /\ offset = 0
  /\ header = NoHeader
  /\ references = <<>>
  /\ trace = <<state>>
  /\ last = NoItem
  /\ results = <<>>
  /\ index = << >>

\* from_entries over the stream of the call.
FromEntries ==
  /\ state = "New"
  /\ call.fn = "from_entries"
  /\ index' = from_entries(<< >>, call.entries)
  /\ ret' = [t |-> "Ok"]
  /\ state' = "Built"
  /\ trace' = Append(trace, "Built")
  /\ UNCHANGED <<reader, data, pos, buffer, offset, header, references, last, results,
                 overflow_checks, call>>

\* read_index of a new index over the table of the call.
ReadIndex ==
  /\ state = "New"
  /\ call.fn = "read_index"
  /\ data' = call.table
  /\ \E r \in {read_index(<< >>, call.table, call.n)} :
       /\ index' = r.index
       /\ ret' = [t |-> r.t]
       /\ state' = IF r.t = "Ok" THEN "Built" ELSE "Failed"
       /\ trace' = Append(trace, IF r.t = "Ok" THEN "Built" ELSE "Failed")
  /\ UNCHANGED <<reader, pos, buffer, offset, header, references, last, results,
                 overflow_checks, call>>

\* Every entry of the index is written as its line; a hash map hands out
\* its entries in any order.
Persist ==
  /\ state = "Built"
  /\ \E order \in { o \in [1..Cardinality(DOMAIN index) -> DOMAIN index] :
                      \A i, j \in DOMAIN o : o[i] = o[j] => i = j } :
       data' = persist(index, order)
  /\ state' = "Persisted"
  /\ trace' = Append(trace, "Persisted")
  /\ UNCHANGED <<reader, pos, buffer, offset, header, references, last, results,
                 overflow_checks, call, ret, index>>

\* read_index of a new index over the table written; the index loaded is
\* kept with the Result.
Load ==
  /\ state = "Persisted"
  /\ call' = [fn |-> "read_index", table |-> data, n |-> call.n]
  /\ ret' = read_index(<< >>, data, call.n)
  /\ state' = "Loaded"
  /\ trace' = Append(trace, "Loaded")
  /\ UNCHANGED <<reader, data, pos, buffer, offset, header, references, last, results,
                 overflow_checks, index>>

IndexNext == FromEntries \/ ReadIndex \/ Persist \/ Load

IndexSpec == IndexInit /\ [][IndexNext]_vars

(***************************************************************************)
(* Properties.                                                             *)
(***************************************************************************)
\* The requests recorded so far returned items of these kinds.
Kind(i) == results[i].kind

\* C1: BamReader: after a request yields an error item, every later request
\* returns end-of-input: no further record or error item is produced.
C1_BamErrorIsTerminal ==
  reader = "BamReader" =>
    \A i, j \in 1..Len(results) : (i < j /\ Kind(i) = "Err") => Kind(j) = "None"

\* C2: FastaReader and FastqReader: after a request yields an error item,
\* every later request returns end-of-input.
C2_TextErrorIsTerminal ==
  reader \in {"FastaReader", "FastqReader"} =>
    \A i, j \in 1..Len(results) : (i < j /\ Kind(i) = "Err") => Kind(j) = "None"

\* C3: BamReader, FastaReader and FastqReader: once a request has returned
\* end-of-input, every later request returns end-of-input, and the Complete
\* state is never left.
C3_EndOfInputIsFinal ==
  reader \in {"BamReader", "FastaReader", "FastqReader"} =>
    /\ \A i, j \in 1..Len(results) : (i < j /\ Kind(i) = "None") => Kind(j) = "None"
    /\ (\E i \in 1..Len(results) : Kind(i) = "None") => last.kind = "None"
    /\ \A i \in 1..Len(trace) : trace[i] = "Complete" => i = Len(trace)
    /\ state = trace[Len(trace)]

\* A BamReader returned end-of-input with bytes of the source unread, and
\* was asked again.
C3_Witness ==
  /\ reader = "BamReader"
  /\ pos < Len(data)
  /\ Len(results) >= 3
  /\ Kind(1) = "None" /\ Kind(2) = "None" /\ Kind(3) = "None"
  /\ state = "Complete"

BamTransitions ==
  { <<"Header", "Reference">>, <<"Header", "Alignment">>,
    <<"Reference", "Alignment">>, <<"Alignment", "Complete">> }

\* C4: BamReader's state only moves forward along Header -> Reference ->
\* Alignment -> Complete; Reference is entered exactly when the declared
\* reference count is greater than zero, Complete is reached only from
\* Alignment.
C4_BamStateMovesForward ==
  reader = "BamReader" =>
    /\ trace[1] = "Header"
    /\ state = trace[Len(trace)]
    /\ \A i \in 1..(Len(trace) - 1) : <<trace[i], trace[i + 1]>> \in BamTransitions
    /\ Len(trace) >= 2 =>
         /\ header.some
         /\ trace[2] = "Reference" <=> header.n_ref > 0

\* A BamReader went through all four states.
C4_Witness ==
  /\ reader = "BamReader"
  /\ trace = <<"Header", "Reference", "Alignment", "Complete">>
  /\ header.n_ref = 1

\* The record a well-formed two-line chunk holds.
FaExpected(chunk) ==
  IF chunk = FaTwoLines
  THEN [id |-> <<"a">>, desc |-> <<>>, seq |-> <<"C", "C">>, qual |-> <<>>]
  ELSE [id |-> <<"b">>, desc |-> <<>>, seq |-> <<"G">>, qual |-> <<>>]

\* C5: FastaReader, for every well-formed two-line input that fits in one
\* chunk: successive requests yield the records in source order, each once,
\* content lines concatenated and terminators stripped, and every request
\* after the last record returns end-of-input.
C5_FastaYieldsRecordsThenEnd ==
  \A cs \in ChunkSeqs({FaTwoLines, FaOneLine}) :
    (reader = "FastaReader" /\ data = Concat(cs) /\ Len(data) <= FA_MAX_BUFFER_SIZE) =>
      \A i \in 1..Len(results) :
        IF i <= Len(cs) THEN results[i] = ItemOk(FaExpected(cs[i]))
        ELSE Kind(i) = "None"

\* C6: the four-line readers decode a record whose separator line is a bare
\* `+`: `@r1 desc\nACGT\n+\n!!!!\n` yields one record with id r1,
\* description desc, sequence ACGT and quality !!!!.
C6_BarePlusDecodes ==
  (reader \in {"FastqReader", "CheckedReader"} /\ Len(results) >= 1) =>
    /\ data = FqSpecExample =>
         results[1] = ItemOk([id |-> <<"r", "1">>, desc |-> <<"d", "e", "s", "c">>,
                              seq |-> <<"A", "C", "G", "T">>,
                              qual |-> <<"!", "!", "!", "!">>])
    /\ data = FqBare =>
         results[1] = ItemOk([id |-> <<"r">>, desc |-> <<"d">>,
                              seq |-> <<"A", "C">>, qual |-> <<"!", "!">>])

\* C7: FastqReader: for every finite input, iterating the reader to
\* exhaustion terminates.  What a request returns depends on the reader's
\* fields and the unread source alone, so the iteration terminates only if
\* no request returns an item (a record or an error) and leaves all of them
\* as it found them: every later request would return that item again.
C7_FastqIterationTerminates ==
  [][(reader = "FastqReader" /\ last'.kind # "None") =>
       <<state, buffer, offset, pos>>' # <<state, buffer, offset, pos>>]_vars

RECURSIVE CountIn(_, _)
\* How many elements of s are in set.
CountIn(s, set) ==
  IF s = <<>> THEN 0
  ELSE (IF Head(s) \in set THEN 1 ELSE 0) + CountIn(Tail(s), set)

\* The number of lines of a text: its terminators, and a last line without
\* terminator.
LinesIn(s) ==
  CountIn(s, {"\n"}) + (IF s # <<>> /\ s[Len(s)] # "\n" THEN 1 ELSE 0)

\* The requests recorded so far that returned an item (a record or an error).
Items == Cardinality({ i \in 1..Len(results) : Kind(i) \in {"Ok", "Err"} })

\* C8: CheckedReader is recoverable: an error item does not end the
\* iteration (the reader stops at the end of the line it failed on, where
\* the next request goes on), every item consumes at least one line of the
\* source, and a request at the end of the source returns end-of-input: the
\* items are at most as many as the lines, then end-of-input is returned.
C8_CheckedReaderRecovers ==
  reader = "CheckedReader" =>
    /\ pos = 0 \/ pos = Len(data) \/ data[pos] = "\n"
    /\ Items <= LinesIn(Bytes(0, pos))
    /\ Len(results) > LinesIn(data) => \E i \in 1..Len(results) : Kind(i) = "None"

\* A CheckedReader returned an error item and a later request a record.
C8_Witness ==
  /\ reader = "CheckedReader"
  /\ \E i, j \in 1..Len(results) : i < j /\ Kind(i) = "Err" /\ Kind(j) = "Ok"
  /\ last.kind = "None"

\* C9: in the four-line readers a record whose quality length differs from
\* its sequence length yields a sequence/quality length mismatch error item;
\* it is never returned as a decoded record.
C9_LengthMismatchIsAnError ==
  reader \in {"FastqReader", "CheckedReader"} =>
    /\ \A i \in 1..Len(results) :
         Kind(i) = "Ok" => Len(results[i].rec.seq) = Len(results[i].rec.qual)
    /\ (data \in {FqMismatch, FqMismatchBare} /\ Len(results) >= 1) =>
         results[1] = ItemErr("SeqQualMismatch")

\* C10: a BamReader in the Alignment state reads the 4 bytes of the declared
\* block length and then exactly that many bytes before it decodes; when the
\* source has 1 to 3 bytes left, or fewer bytes than declared after the
\* prefix, the request yields an unexpected-end-of-input error.
C10_BlockIsReadWhole ==
  [][(reader = "BamReader" /\ state = "Alignment") =>
       LET avail == Len(data) - pos
           declared == LeUnsigned(Bytes(pos, pos + 4))
       IN
         /\ avail \in 1..3 => last' = ItemErr("EofError")
         /\ (avail >= 4 /\ avail - 4 < declared) => last' = ItemErr("EofError")
         /\ (avail >= 4 /\ avail - 4 >= declared) => pos' = pos + 4 + declared
    ]_vars

\* The source holds at least four bytes and they are not the magic marker.
BadMagic == Len(data) >= 4 /\ SubSeq(data, 1, 4) # BAM_MAGIC_STR

\* C11: BamReader: when the first four bytes of the source are not the magic
\* marker, the first request fails fatally (it panics: no item is returned
\* and no later request is served) with the header still absent: no header
\* is stored, no reference is decoded, no alignment record is yielded and
\* the state stays Header.
C11_BadMagicIsFatal ==
  (reader = "BamReader" /\ BadMagic) =>
    /\ last \in {NoItem, ItemPanic}
    /\ results \in {<<>>, <<ItemPanic>>}
    /\ header = NoHeader
    /\ references = <<>>
    /\ state = "Header"
    /\ trace = <<"Header">>

\* The first request to a BamReader over a source with a wrong marker was
\* made.
C11_Witness ==
  /\ reader = "BamReader"
  /\ BadMagic
  /\ SubSeq(data, 1, 3) = SubSeq(BAM_MAGIC_STR, 1, 3)
  /\ last = ItemPanic
  /\ results = <<ItemPanic>>

\* The i-th packed CIGAR value of the input of a read_cigar call.
Word(i) == SubSeq(call.input, 4 * i - 3, 4 * i)

\* A read_cigar call whose input holds the n_op values it is asked for has
\* returned.
CigarDecoded ==
  /\ call.fn = "read_cigar"
  /\ ret # NoRet
  /\ Len(call.input) >= 4 * call.n_op

\* C12: CIGAR unpack: for every 32-bit little-endian value v the decoded
\* operation kind is selected by the low 4 bits of v (0..8 -> M, I, D, N, S,
\* H, P, =, X) and the decoded run length is v shifted right by 4; no other
\* bit of v influences either.
C12_CigarUnpack ==
  (CigarDecoded /\ \A i \in 1..call.n_op : Word(i)[1] % 16 <= 8) =>
    /\ ret.t = "Ok"
    /\ Len(ret.out) = call.n_op
    /\ \A i \in 1..call.n_op :
         ret.out[i] = [op |-> CigarKinds[(Word(i)[1] % 16) + 1],
                       len |-> ShiftRight4(Word(i))]

\* C13: CIGAR decode: a packed value whose low 4 bits hold a kind code in
\* 9..15 is a fatal decode error (the call panics); read_cigar never
\* returns an operation for such a value.
C13_UnknownKindIsFatal ==
  (CigarDecoded /\ \E i \in 1..call.n_op : Word(i)[1] % 16 > 8) => ret.t = "Panic"

\* The nibble a symbol stands for in the table of to_sequence.
SymbolCode(sym) == CHOOSE n \in 0..15 : BamSeqSymbols[n + 1] = sym

\* C14: read_sequence: for a declared length L and an input that holds
\* ceil(L/2) bytes, the result has exactly L symbols, symbol 2k is the table
\* entry of the high nibble of byte k and symbol 2k+1 that of the low
\* nibble, exactly ceil(L/2) bytes are consumed, and for even L re-packing
\* the symbols gives the bytes back.  (A slice of 2^31 bytes is beyond the
\* model: for L = u32::MAX read_sequence computes (L + 1) / 2 before it
\* looks at the input, so the outcome is that of any input and the short
\* input of the call stands for one that long.)
C14_SequenceUnpack ==
  (/\ call.fn = "read_sequence"
   /\ ret # NoRet
   /\ (call.l_seq = U32_MAX \/ Len(call.input) >= (call.l_seq + 1) \div 2)) =>
    /\ ret.t = "Ok"
    /\ Len(ret.out) = call.l_seq
    /\ \A j \in 1..call.l_seq :
         ret.out[j] = BamSeqSymbols[
           (IF j % 2 = 1 THEN call.input[(j + 1) \div 2] \div 16
                         ELSE call.input[(j + 1) \div 2] % 16) + 1]
    /\ ret.rest = SliceFrom(call.input, (call.l_seq + 1) \div 2)
    /\ call.l_seq % 2 = 0 =>
         [k \in 1..(call.l_seq \div 2) |->
            16 * SymbolCode(ret.out[2 * k - 1]) + SymbolCode(ret.out[2 * k])]
           = SubSeq(call.input, 1, call.l_seq \div 2)

\* A maybe_correct_cigar call has returned or panicked.
Corrected == call.fn = "maybe_correct_cigar" /\ ret # NoRet

FirstOf(p) ==
  /\ reader = "BamReader"
  /\ Len(data) >= Len(p)
  /\ SubSeq(data, 1, Len(p)) = p
  /\ Len(results) >= 1

\* C18: read_alignment accepts zero auxiliary fields: a well-formed block
\* whose bytes end right after the quality block decodes to a record with an
\* empty or absent auxiliary mapping, which the long-CIGAR correction pass
\* leaves as it is (one op, 2M).
C18_NoAuxiliaryFieldDecodes ==
  FirstOf(HeadOneRef \o NoAuxBlock) =>
    /\ Kind(1) = "Ok"
    /\ DOMAIN results[1].rec.aux = {}
    /\ results[1].rec.n_cigar_op = 1
    /\ results[1].rec.cigar = <<[op |-> "M", len |-> 2]>>

\* C19: read_alignment accepts the reference id sentinel: a record whose
\* reference id is -1 decodes without error, and a reference id is used as a
\* catalog position only when it lies in 0..len(catalog)-1 (a record on
\* reference 0 read with an empty catalog does not end the program).
C19_ReferenceSentinelDecodes ==
  /\ FirstOf(HeadOneRef \o UnmappedBlock) =>
       Kind(1) = "Ok" /\ results[1].rec.ref_id = -1
  /\ FirstOf(HeadNoRef \o GoodBlock) => Kind(1) # "Panic"

RECURSIVE ck_scan(_, _)
\* The items of a full sequential scan (CheckedReader) of the source from
\* position p, up to end-of-input.
ck_scan(p, acc) ==
  With(ck_next(p), LAMBDA r :
    IF r.res.kind = "None" THEN acc ELSE ck_scan(r.pos, Append(acc, r.res)))

\* C20: for every index built by a scan (FastqIndexer -> FastqIndex) over a
\* source that a full sequential scan reads without error, and every name
\* in it that the sequential scan returns too, IndexedFastq::get
\* reconstructs the sequence and the quality string the sequential scan
\* returns for a record of that name, also when the last content line of
\* the record is shorter than the first.
C20_IndexedGetEqualsScan ==
  (reader = "FastqIndexer" /\ call.fn = "get" /\ call.id \in DOMAIN index) =>
    LET scan == ck_scan(0, <<>>)
        same == { i \in 1..Len(scan) : scan[i].rec.id = call.id }
    IN ((\A i \in 1..Len(scan) : scan[i].kind = "Ok") /\ same # {}) =>
         /\ ret.t = "Ok"
         /\ \E i \in same : /\ ret.rec.seq = scan[i].rec.seq
                            /\ ret.rec.qual = scan[i].rec.qual

\* C21: FastaIndexer, for every well-formed two-line source (records that
\* start with `>`): the scan yields one index entry per record, in source
\* order, named by the text after `>` up to the first whitespace, and then
\* ends without error at the end of the source.
C21_FastaIndexerScansTwoLine ==
  \A cs \in ChunkSeqs({FaTwoLines, FaOneLine}) :
    (reader = "FastaIndexer" /\ data = Concat(cs)) =>
      \A i \in 1..Len(results) :
        IF i <= Len(cs)
        THEN results[i].kind = "Ok" /\ results[i].rec.name = FaExpected(cs[i]).id
        ELSE results[i].kind = "None"

\* C22: index round trip: when every entry of an index (built by
\* from_entries or loaded by read_index) is written as its tab-separated
\* line and those lines are loaded by read_index into an empty index, the
\* load succeeds and the index loaded has the same keys, each with an entry
\* equal to the original in every field.
C22_IndexRoundTrip ==
  state = "Loaded" =>
    /\ ret.t = "Ok"
    /\ DOMAIN ret.index = DOMAIN index
    /\ \A k \in DOMAIN index : ret.index[k] = index[k]

C22_Witness ==
  /\ state = "Loaded"
  /\ ret.t = "Ok"
  /\ Cardinality(DOMAIN index) = 3
  /\ \E k \in DOMAIN index : index[k].length = 10 /\ index[k].offset = 3
  /\ \E k \in DOMAIN index : k = <<"a", " ", "b">>

\* C23: IndexedFastq::get and IndexedFasta::get with a name that is not a
\* key of the index return the not-found error value, whatever the index
\* holds; they do not panic.
C23_UnknownNameIsNotFound ==
  (reader \in {"FastqIndexer", "FastaIndexer"} /\ call.fn = "get"
     /\ call.id \notin DOMAIN index) =>
    ret.t = "NotFound"

C23_Witness ==
  /\ reader = "FastqIndexer"
  /\ call.fn = "get"
  /\ call.id = <<"z">>
  /\ ret.t = "NotFound"
  /\ Cardinality(DOMAIN index) = 2
  /\ \E k \in DOMAIN index : index[k].linebases = 0

\* C24: from_entries over a stream of entries: the keys of the index are
\* the names of the stream, each once; a name that several entries share
\* maps to the entry that came last in the stream, every other name to its
\* only entry.
C24_LastEntryWins ==
  (call.fn = "from_entries" /\ state = "Built") =>
    /\ DOMAIN index = { call.entries[i].name : i \in 1..Len(call.entries) }
    /\ \A i \in 1..Len(call.entries) :
         (\A j \in (i + 1)..Len(call.entries) :
            call.entries[j].name # call.entries[i].name)
           => index[call.entries[i].name] = call.entries[i]

C24_Witness ==
  /\ call.fn = "from_entries"
  /\ state = "Built"
  /\ Len(call.entries) = 3
  /\ call.entries[1].name = call.entries[3].name
  /\ call.entries[1] # call.entries[3]
  /\ call.entries[2].name # call.entries[1].name
  /\ index[call.entries[1].name] = call.entries[3]
  /\ Cardinality(DOMAIN index) = 2

\* A row of a table of n fields is malformed: it has not n tab-separated
\* fields, or one of its numeric fields is not a sequence of one or more
\* decimal digits (after an optional `+`).
Malformed(row, n) ==
  LET f == split(row, "\t")
      d(s) == IF s # <<>> /\ s[1] = "+" THEN Tail(s) ELSE s
  IN \/ Len(f) # n
     \/ \E i \in 2..Len(f) :
          \/ d(f[i]) = <<>>
          \/ \E k \in 1..Len(d(f[i])) : \A c \in 1..10 : DigitChars[c] # d(f[i])[k]

\* C25: read_index over a table with a malformed row (a wrong number of
\* fields: not 5 for the two-line format, not 6 for the four-line format; or
\* a numeric field that is not an unsigned integer) returns the load error,
\* and inserts no entry for that row or a later one.
C25_MalformedRowIsLoadError ==
  (call.fn = "read_index" /\ state \in {"Built", "Failed"}) =>
    LET ls == lines(call.table)
        bad == { i \in 1..Len(ls) : Malformed(ls[i], call.n) }
    IN bad # {} =>
         /\ ret.t = "InvalidData"
         /\ \A i \in bad : Cardinality(DOMAIN index) < i

\* C26: two-line round trip: for every valid record (a non-empty id without
\* line terminators, a non-empty sequence without `>`), parse_record over
\* the text `>` id terminator and the sequence split over any number of
\* content lines returns exactly (id, sequence), all line terminators
\* removed, whether or not the last line ends with a terminator.
C26_TwoLineRoundTrip ==
  (call.fn = "parse_record" /\ ret # NoRet) =>
    /\ ret.t = "Ok"
    /\ ret.out = [id |-> call.id, seq |-> call.seq]

C26_Witness ==
  /\ call.fn = "parse_record"
  /\ ret # NoRet
  /\ ret.t = "Ok"
  /\ call.input = <<">", "a", ">", "b", "\r", "\n", "A", "C", "\r", "\n", "G", " ", "T",
                    "\r", "\n", "A">>
  /\ ret.out.seq = <<"A", "C", "G", " ", "T", "A">>

\* The name of the reference-catalog entry handed to read_reference.
NameOf(input) == SubSeq(input, 5, Len(input) - 5)

\* The characters \ { } [ ] < > ( ) ,
Excluded == {92, 123, 125, 91, 93, 60, 62, 40, 41, 44}

RECURSIVE fa_whole(_)
\* The records parse_record yields over a whole text, one after the other.
fa_whole(input) ==
  With(fa_parse_record(input), LAMBDA r :
    IF r.t = "Ok" /\ Len(r.rest) < Len(input)
    THEN <<r.out>> \o fa_whole(r.rest) ELSE <<>>)

\* C27: FastaReader has the input up to the next `>` (or the end of the
\* source) in its buffer before it parses a record: every record it returns
\* has the whole sequence of the record of the source, none is cut at the
\* end of a chunk read, whatever the chunk size and the record lengths are.
C27_NoRecordIsTruncated ==
  reader = "FastaReader" =>
    \A i \in 1..Len(results) :
      (\A j \in 1..i : results[j].kind = "Ok") =>
        /\ i <= Len(fa_whole(data))
        /\ results[i].rec.id = fa_whole(data)[i].id
        /\ results[i].rec.seq = fa_whole(data)[i].seq

\* Well-formed four-line records of uniform line width; the sequence and
\* the quality of FqMulti span two lines each.
UniformChunks == { FqGood, FqBare, FqSpecExample, FqShort, FqMulti }

\* C29: FastqIndexer over well-formed records of uniform line width: after
\* make_index has captured a record the source position is at the first
\* byte of the marker line of the next record, or at the end of the source,
\* also when the sequence and the quality span several lines; hence the
\* scan yields exactly one entry per record, in source order.
C29_ScanLandsOnNextMarker ==
  \A cs \in ChunkSeqs(UniformChunks) :
    (reader = "FastqIndexer" /\ data = Concat(cs)) =>
      /\ last.kind = "Ok" =>
           pos = Len(Concat(SubSeq(cs, 1, Len(results))))
      /\ \A i \in 1..Len(results) :
           IF i <= Len(cs)
           THEN /\ results[i].kind = "Ok"
                /\ results[i].rec.name = SubSeq(cs[i], 2, FirstIn(cs[i], WhiteSpace) - 1)
           ELSE results[i].kind = "None"

\* After a request that decoded a record from the buffer B up to the
\* consumed offset c: the reader has dropped exactly B[0..c] and set the
\* offset to 0 when compact holds, and has left the buffer alone otherwise.
\* Either way the unconsumed bytes are B[c..].
CompactsWhen(compact, B, c) ==
  IF compact THEN buffer' = SliceFrom(B, c) /\ offset' = 0
  ELSE buffer' = B /\ offset' = c

\* What a request of a FastqReader leaves, B being the buffer with the
\* bytes the request read.
FqCompaction(compact(_, _)) ==
  (reader = "FastqReader" /\ last'.kind = "Ok") =>
    \E B \in {buffer \o Bytes(pos, pos')} :
      \E c \in {Len(B) - Len(fq_parse_record(SliceFrom(B, offset)).rest)} :
        CompactsWhen(compact(B, c), B, c)

\* The same for a FastaReader.
FaCompaction(compact(_, _)) ==
  (reader = "FastaReader" /\ last'.kind = "Ok") =>
    \E B \in {buffer \o Bytes(pos, pos')} :
      \E c \in {Len(B) - Len(fa_parse_record(SliceFrom(B, offset)).rest)} :
        CompactsWhen(compact(B, c), B, c)

\* C30 (as amended): buffer compaction at the end of a successful request:
\* FastqReader compacts if the consumed offset exceeds its threshold,
\* FastaReader if the length of its buffer exceeds its threshold; a reader
\* that compacts drops exactly buffer[0..consumed] and sets consumed to 0,
\* otherwise it leaves the buffer alone.  Compaction runs after the decode
\* attempt has updated consumed, and the unconsumed bytes buffer[consumed..]
\* are the same, in the same order, before and after.
C30_Compaction ==
  [][ /\ FqCompaction(LAMBDA B, c : c > FQ_MAX_BUFFER_SIZE)
      /\ FaCompaction(LAMBDA B, c : Len(B) > FA_MAX_BUFFER_SIZE) ]_vars

C30_Witness ==
  /\ reader = "FastaReader"
  /\ data = FaPair \o FaOneLine
  /\ Len(results) = 2
  /\ last = ItemOk([id |-> <<"e">>, desc |-> <<>>, seq |-> <<"T">>, qual |-> <<>>])
  /\ buffer = FaOneLine
  /\ offset = 0

\* C30 (as stated): both readers compact if and only if the consumed offset
\* exceeds the threshold.
C30_CompactionByConsumed ==
  [][ /\ FqCompaction(LAMBDA B, c : c > FQ_MAX_BUFFER_SIZE)
      /\ FaCompaction(LAMBDA B, c : c > FA_MAX_BUFFER_SIZE) ]_vars

RECURSIVE LinesFrom(_)
\* The lines of the source from position p on, each with its terminator.
LinesFrom(p) ==
  IF p >= Len(data) THEN <<>>
  ELSE <<Bytes(p, ReadUntil("\n", p))>> \o LinesFrom(ReadUntil("\n", p))

\* A line without its terminator ("\n" or "\r\n").
Unterminated(line) ==
  IF line # <<>> /\ line[Len(line)] = "\n"
  THEN (IF Len(line) > 1 /\ line[Len(line) - 1] = "\r"
        THEN SubSeq(line, 1, Len(line) - 2) ELSE SubSeq(line, 1, Len(line) - 1))
  ELSE line

\* The lines i..j of ls joined without their terminators.
Joined(ls, i, j) == Concat([n \in 1..(j - i + 1) |-> Unterminated(ls[i + n - 1])])

\* The total length of the first n lines of ls.
LengthOf(ls, n) == Len(Concat(SubSeq(ls, 1, n)))

\* The number of content lines of the record that starts ls: the lines
\* after the first one and before the first line that begins with `+`.
ContentLines(ls) ==
  IF \E i \in 2..Len(ls) : ls[i][1] = "+"
  THEN (CHOOSE i \in 2..Len(ls) : ls[i][1] = "+" /\ \A j \in 2..(i - 1) : ls[j][1] # "+") - 2
  ELSE 0

C32_OffsetWithinBuffer ==
  reader \in {"BamReader", "FastaReader", "FastqReader"} =>
    0 <= offset /\ offset <= Len(buffer)

\* A FastaReader that compacted its buffer after a record and, on a later
\* request, consumed part of what the buffer then held.
C32_Witness ==
  /\ reader = "FastaReader"
  /\ Len(results) >= 2
  /\ \E i \in 1..Len(results) : Kind(i) = "Ok" /\ Len(results[i].rec.seq) > FA_MAX_BUFFER_SIZE - 4
  /\ 0 < offset /\ offset < Len(buffer)

\* The header is decoded and the catalog holds as many references as the
\* header declares.
CatalogComplete == header.some /\ Len(references) = header.n_ref

\* C33: whenever a BamReader is in Alignment or Complete its header is
\* decoded and it holds as many references as the header declares; no
\* request returns an item (a record, an error or end-of-input) before.
C33_CatalogBeforeAlignments ==
  reader = "BamReader" =>
    /\ state \in {"Alignment", "Complete"} => CatalogComplete
    /\ (\E i \in 1..Len(results) : Kind(i) \in {"Ok", "Err", "None"}) => CatalogComplete

\* A BamReader whose header declares one reference returned a record.
C33_Witness ==
  /\ reader = "BamReader"
  /\ header.some /\ header.n_ref = 1 /\ Len(references) = 1
  /\ state = "Alignment"
  /\ \E i \in 1..Len(results) : Kind(i) = "Ok"

\* C34: a BamReader returns end-of-input, and is Complete, only when the
\* source is exhausted: while unread bytes remain in the source no request
\* returns end-of-input, whatever length the next prefix declares.
C34_EndOfInputOnlyAtEndOfSource ==
  reader = "BamReader" =>
    /\ last.kind = "None" => pos = Len(data)
    /\ state = "Complete" => pos = Len(data)

\* C35: the first request to a BamReader terminates on every finite
\* source: when the source ends before the header or the reference catalog
\* is complete the request fails with an unexpected end of input; it never
\* repeats a refill that reads nothing without end.
C35_TruncatedHeaderTerminates ==
  reader = "BamReader" =>
    /\ last.kind # "Hang"
    /\ (Len(results) = 1 /\ pos = Len(data) /\ ~CatalogComplete) =>
         last.kind = "Err" /\ last.err = "EofError"

\* C36: the scan of a FastqIndexer or FastaIndexer ends (the request
\* returns None) only when the source is exhausted: while unread lines
\* remain a request yields an entry or an error, never the end of the scan.
C36_ScanEndsOnlyAtEndOfSource ==
  reader \in {"FastqIndexer", "FastaIndexer"} =>
    (last.kind = "None" => pos = Len(data))

\* C37: a request to a CheckedReader returns end-of-input only when the
\* source is exhausted: a request that returns end-of-input read nothing
\* and stands at the end of the source, so no record that was read, and no
\* record after it, is dropped.
C37_CheckedEndOfInputOnlyAtEnd ==
  [][ (reader = "CheckedReader" /\ last'.kind = "None") =>
        (pos' = pos /\ pos = Len(data)) ]_vars

(***************************************************************************)
(* A FastaReader over a source of many short records: more records than a  *)
(* chunk of FA_MAX_BUFFER_SIZE bytes holds.                                *)
(***************************************************************************)
MaxRecords == 8

\* The sources: up to MaxRecords well-formed records, one after the other.
StreamSources == { Concat(rs) : rs \in UNION { [1..n -> {FaOneLine, FaTwoLines}] : n \in 0..MaxRecords } }

StreamInit ==
  /\ reader = "FastaReader"
  /\ data \in StreamSources
  /\ pos = 0
  /\ state = InitState(reader)
  /\ buffer = <<>>
  /\ offset = 0
  /\ header = NoHeader
  /\ references = <<>>
  /\ trace = <<state>>
  /\ last = NoItem
  /\ results = <<>>
  /\ overflow_checks \in BOOLEAN
  /\ call = NoCall
  /\ ret = NoRet
  /\ index = << >>

\* The requests of a loop over the reader.
StreamNext == FastaNext

StreamSpec == StreamInit /\ [][StreamNext]_vars

\* The length of the record that starts at byte i of the source: up to the
\* next `>` or the end of the source.
RecordLength(i) ==
  IF \E j \in (i + 1)..Len(data) : data[j] = ">"
  THEN ReadUntil(">", i) - i
  ELSE Len(data) - i + 1

\* The length of the longest record of the source.
LongestRecord ==
  LET starts == { i \in 1..Len(data) : data[i] = ">" }
  IN  IF starts = {} THEN 0
      ELSE CHOOSE n \in { RecordLength(i) : i \in starts } :
             \A i \in starts : RecordLength(i) <= n

\* C38: the unconsumed bytes a FastaReader holds, len(buffer) - offset,
\* never exceed one chunk (MAX_BUFFER_SIZE) plus the length of the longest
\* record of the source, however many records the source has and however
\* many requests were made.
C38_UnconsumedIsBounded ==
  reader = "FastaReader" =>
    Len(buffer) - offset <= FA_MAX_BUFFER_SIZE + LongestRecord

\* C39: IndexedFastq::get and IndexedFasta::get with a name that is not a
\* key of the index change nothing: the caller's record keeps every field
\* it had before the call and the handle stands where it stood.
C39_UnknownNameChangesNothing ==
  (reader \in {"FastqIndexer", "FastaIndexer"} /\ call.fn = "get"
     /\ call.id \notin DOMAIN index) =>
    ret.rec = call.rec /\ ret.handle = call.handle

\* A get of an unknown name was given the record an earlier get had filled,
\* with the handle where that get had left it.
C39_Witness ==
  /\ reader = "FastqIndexer"
  /\ call.fn = "get"
  /\ call.id = <<"z">>
  /\ call.rec.seq # <<>> /\ call.rec.qual # <<>>
  /\ call.handle > 0
  /\ ret.t = "NotFound"

=============================================================================
